---- MODULE Spec2Model ----
(***************************************************************************)
(* Model of the heavymath indexer client: the event-stream hook (useSSE),  *)
(* the TTL cache service (IndexerService) and the endpoint client          *)
(* (IndexerClient).                                                        *)
(*                                                                         *)
(* useSSE is a React hook.  Its refs (eventSourceRef, reconnectAttemptsRef,*)
(* reconnectTimeoutRef) are read and written immediately by the handlers;  *)
(* its React state (connectionState, clientId, ...) is written by the      *)
(* handlers and committed by the next render.  The handlers read only refs *)
(* and the props closed over by the render that created them, so the model *)
(* keeps the latest written value of each React state and, separately, the *)
(* connection state seen by the last committed render (rState), which is   *)
(* what the filter-change effect reads.                                    *)
(*                                                                         *)
(* Platform assumptions: EventSource exists and the endpoint URL parses,   *)
(* so `new EventSource` does not throw; the caller's callbacks (onEvent,   *)
(* onStateChange, onError) are given and return normally; option values    *)
(* keep their identity between renders unless their value changes.  The    *)
(* model covers the hook from its first render for as long as its          *)
(* component stays mounted.                                                *)
(*                                                                         *)
(* The query hooks are calls of useQuery of @tanstack/react-query 5: a     *)
(* query is fetched on a read when it is enabled and stale (no data, data  *)
(* older than staleTime, or invalidated); isLoading is pending and         *)
(* fetching; invalidateQueries marks the queries whose key starts with the *)
(* given key and refetches those that are not disabled.  The hooks set     *)
(* retry: false, so a failed fetch is an error at once.                    *)
(***************************************************************************)
EXTENDS Integers, Sequences, FiniteSets, TLC

\* ---------------------------------------------------------------- bounds
MaxReconnectAttempts == 2   \* option maxReconnectAttempts
MaxSources == 2             \* EventSource handles that can be told apart
MaxTimers == 2              \* reconnect timers pending at one time
MaxEvents == 1              \* length of the event log

\* Values of the options (channel, filters): two subscriptions that differ.
Cfgs == {"markets", "predictions"}
NULL == 0                   \* a ref that holds null
NoId == "null"              \* clientId / subscriptionId null
ServerIds == {"id-1"}       \* ids the server assigns
NoEvent == [cfg |-> "none"]   \* lastEvent null

ConnectionStates == {"disconnected", "connecting", "connected", "error"}
MessageTypes ==
  {"connected", "data_update", "heartbeat", "subscription_confirmed", "malformed"}

VARIABLES
  enabled,              \* option `enabled` of the last render
  cfg,                  \* options `channel` and `filters` of the last render
  autoReconnect,        \* option `autoReconnect`
  mounted,              \* the component using the hook is mounted
  rState,               \* connectionState as seen by the last render's effects
  connectionState,      \* useState: connection state
  clientId,             \* useState: client id (NULL = null)
  subscriptionId,       \* useState: subscription id (NULL = null)
  error,                \* useState: an Error is set
  events,               \* useState: event log
  lastEvent,            \* useState: last event (NULL = null)
  eventSourceRef,       \* useRef: id of the current EventSource (NULL = null)
  reconnectAttemptsRef, \* useRef: reconnect attempts
  reconnectTimeoutRef,  \* useRef: id of the last reconnect timer (NULL = null)
  sources,              \* EventSources that are not closed: [id, cfg]
  timers,               \* reconnect timers that are pending: [id, cfg]
  errorRun,             \* history: stream errors since the last 'connected'
                        \* message or reconnect() call, counted up to max + 1
  filterChanged         \* history: the last change of options changed channel
                        \* or filters while connected and enabled

sseVars ==
  <<enabled, cfg, autoReconnect, mounted, rState, connectionState, clientId,
    subscriptionId, error, events, lastEvent, eventSourceRef,
    reconnectAttemptsRef, reconnectTimeoutRef, sources, timers,
    errorRun, filterChanged>>

\* The mutable part of the hook as one record, so that the code's sequences
\* of calls (disconnect(); connect()) compose as functions.
H ==
  [connectionState |-> connectionState, clientId |-> clientId,
   subscriptionId |-> subscriptionId, error |-> error, events |-> events,
   lastEvent |-> lastEvent, eventSourceRef |-> eventSourceRef,
   reconnectAttemptsRef |-> reconnectAttemptsRef,
   reconnectTimeoutRef |-> reconnectTimeoutRef,
   sources |-> sources, timers |-> timers,
   onEventCalls |-> <<>>]     \* the calls of onEvent a handler makes

\* The handlers' result becomes the next state (evaluated once).
Store(result) ==
  \E h \in {result} :
    /\ connectionState' = h.connectionState
    /\ clientId' = h.clientId
    /\ subscriptionId' = h.subscriptionId
    /\ error' = h.error
    /\ events' = h.events
    /\ lastEvent' = h.lastEvent
    /\ eventSourceRef' = h.eventSourceRef
    /\ reconnectAttemptsRef' = h.reconnectAttemptsRef
    /\ reconnectTimeoutRef' = h.reconnectTimeoutRef
    /\ sources' = h.sources
    /\ timers' = h.timers

SourceIds(h) == {s.id : s \in h.sources}
TimerIds(h) == {t.id : t \in h.timers}

\* Handles the platform has not handed out among the live ones, and the
\* one it hands out next.
FreeTimerIds(h) == (1..MaxTimers) \ (TimerIds(h) \cup {h.reconnectTimeoutRef})
FreshId(free) == CHOOSE i \in free : \A j \in free : i <= j

\* EventSource.close(): the source delivers nothing afterwards.
closeSource(srcs, id) == {s \in srcs : s.id # id}

\* clearTimeout(id): no effect on a timer that has fired.
clearTimeout(tms, id) == {t \in tms : t.id # id}

updateConnectionState(h, state) == [h EXCEPT !.connectionState = state]

\* A connect() that opens the new stream beside the previous one.
connect_NoClose(h, en, c) ==
  IF ~en THEN h
  ELSE
    LET id == FreshId((1..MaxSources) \ (SourceIds(h) \cup {h.eventSourceRef}))
    IN [h EXCEPT !.connectionState = "connecting",
                 !.error = FALSE,
                 !.sources = h.sources \cup {[id |-> id, cfg |-> c]},
                 !.eventSourceRef = id]

\* connect() of a render whose options are (en, c).
connect(h, en, c) ==
  IF ~en THEN h
  ELSE
    LET closed == IF h.eventSourceRef # NULL
                  THEN closeSource(h.sources, h.eventSourceRef)
                  ELSE h.sources
        id == FreshId((1..MaxSources) \ ({s.id : s \in closed} \cup {h.eventSourceRef}))
    IN [h EXCEPT !.connectionState = "connecting",
                 !.error = FALSE,
                 !.sources = closed \cup {[id |-> id, cfg |-> c]},
                 !.eventSourceRef = id]

disconnect(h) ==
  LET h1 == IF h.reconnectTimeoutRef # NULL
            THEN [h EXCEPT !.timers = clearTimeout(h.timers, h.reconnectTimeoutRef),
                           !.reconnectTimeoutRef = NULL]
            ELSE h
      h2 == IF h1.eventSourceRef # NULL
            THEN [h1 EXCEPT !.sources = closeSource(h1.sources, h1.eventSourceRef),
                            !.eventSourceRef = NULL]
            ELSE h1
  IN [h2 EXCEPT !.clientId = NoId, !.subscriptionId = NoId,
                !.connectionState = "disconnected"]

reconnect(h, en, c) ==
  connect(disconnect([h EXCEPT !.reconnectAttemptsRef = 0]), en, c)

clearEvents(h) == [h EXCEPT !.events = <<>>, !.lastEvent = NoEvent]

\* handleMessage that leaves the attempt counter alone on 'connected'.
handleMessage_NoReset(h, msg) ==
  IF msg.type = "connected"
  THEN [h EXCEPT !.clientId = msg.clientId,
                 !.subscriptionId = msg.subscriptionId,
                 !.connectionState = "connected"]
  ELSE IF msg.type = "data_update"
  THEN [h EXCEPT !.lastEvent = msg.event,
                 !.events = Append(h.events, msg.event),
                 !.onEventCalls = Append(h.onEventCalls, msg.event)]
  ELSE h

\* handleMessage that puts the new event at the head of the log.
handleMessage_Prepend(h, msg) ==
  IF msg.type = "connected"
  THEN [h EXCEPT !.clientId = msg.clientId,
                 !.subscriptionId = msg.subscriptionId,
                 !.connectionState = "connected",
                 !.reconnectAttemptsRef = 0]
  ELSE IF msg.type = "data_update"
  THEN [h EXCEPT !.lastEvent = msg.event,
                 !.events = <<msg.event>> \o h.events,
                 !.onEventCalls = Append(h.onEventCalls, msg.event)]
  ELSE h

\* handleMessage whose catch block reports the parse failure as an error.
handleMessage_RaiseMalformed(h, msg) ==
  IF msg.type = "connected"
  THEN [h EXCEPT !.clientId = msg.clientId,
                 !.subscriptionId = msg.subscriptionId,
                 !.connectionState = "connected",
                 !.reconnectAttemptsRef = 0]
  ELSE IF msg.type = "data_update"
  THEN [h EXCEPT !.lastEvent = msg.event,
                 !.events = Append(h.events, msg.event),
                 !.onEventCalls = Append(h.onEventCalls, msg.event)]
  ELSE IF msg.type = "malformed"
  THEN [h EXCEPT !.error = TRUE, !.connectionState = "error"]
  ELSE h

\* handleMessage: msg.type = "malformed" stands for a payload JSON.parse rejects.
handleMessage(h, msg) ==
  IF msg.type = "connected"
  THEN [h EXCEPT !.clientId = msg.clientId,
                 !.subscriptionId = msg.subscriptionId,
                 !.connectionState = "connected",
                 !.reconnectAttemptsRef = 0]
  ELSE IF msg.type = "data_update"
  THEN [h EXCEPT !.lastEvent = msg.event,
                 !.events = Append(h.events, msg.event),
                 !.onEventCalls = Append(h.onEventCalls, msg.event)]
  ELSE h

\* onerror that schedules the reconnect without counting the attempt.
onerror_NoIncrement(h, auto, c) ==
  LET h1 == [h EXCEPT !.connectionState = "error", !.error = TRUE]
  IN IF auto /\ h1.reconnectAttemptsRef < MaxReconnectAttempts
     THEN LET id == FreshId(FreeTimerIds(h1))
          IN [h1 EXCEPT !.timers = h1.timers \cup {[id |-> id, cfg |-> c]},
                        !.reconnectTimeoutRef = id]
     ELSE IF h1.reconnectAttemptsRef >= MaxReconnectAttempts
     THEN updateConnectionState(h1, "disconnected")
     ELSE h1

\* onerror that counts the attempt also when it schedules no reconnect.
onerror_CountAlways(h, auto, c) ==
  LET h1 == [h EXCEPT !.connectionState = "error", !.error = TRUE]
  IN IF auto /\ h1.reconnectAttemptsRef < MaxReconnectAttempts
     THEN LET id == FreshId(FreeTimerIds(h1))
          IN [h1 EXCEPT !.reconnectAttemptsRef = h1.reconnectAttemptsRef + 1,
                        !.timers = h1.timers \cup {[id |-> id, cfg |-> c]},
                        !.reconnectTimeoutRef = id]
     ELSE IF h1.reconnectAttemptsRef >= MaxReconnectAttempts
     THEN updateConnectionState(h1, "disconnected")
     ELSE [h1 EXCEPT !.reconnectAttemptsRef = h1.reconnectAttemptsRef + 1]

\* eventSource.onerror of a source opened by the connect() of options (TRUE, c).
onerror(h, auto, c) ==
  LET h1 == [h EXCEPT !.connectionState = "error", !.error = TRUE]
  IN IF auto /\ h1.reconnectAttemptsRef < MaxReconnectAttempts
     THEN LET id == FreshId(FreeTimerIds(h1))
          IN [h1 EXCEPT !.reconnectAttemptsRef = h1.reconnectAttemptsRef + 1,
                        !.timers = h1.timers \cup {[id |-> id, cfg |-> c]},
                        !.reconnectTimeoutRef = id]
     ELSE IF h1.reconnectAttemptsRef >= MaxReconnectAttempts
     THEN updateConnectionState(h1, "disconnected")
     ELSE h1

CanSchedule(h, auto) ==
  (auto /\ h.reconnectAttemptsRef < MaxReconnectAttempts) => FreeTimerIds(h) # {}

\* ---------------------------------------------------------------- effects
\* useEffect [enabled, connect, disconnect]: cleanup of the previous run,
\* then the body with the new options.
enabledEffect(h, en, c) ==
  LET h1 == disconnect(h)
  IN IF en THEN connect(h1, en, c) ELSE disconnect(h1)

\* useEffect [channel, filters, enabled, connectionState, reconnect];
\* seen is the connection state of the render the effect belongs to.
filterEffect(h, en, c, seen) ==
  IF en /\ seen = "connected" THEN reconnect(h, en, c) ELSE h

\* The effects of one committed render with options (en, c).
runEffects(h, en, c, connectChanged) ==
  LET seen == h.connectionState
      h1 == IF connectChanged THEN enabledEffect(h, en, c) ELSE h
  IN filterEffect(h1, en, c, seen)

\* ---------------------------------------------------------------- actions
SSEInit ==
  /\ enabled \in BOOLEAN
  /\ cfg \in Cfgs
  /\ autoReconnect \in BOOLEAN
  /\ mounted = FALSE
  /\ rState = "disconnected"
  /\ connectionState = "disconnected"
  /\ clientId = NoId
  /\ subscriptionId = NoId
  /\ error = FALSE
  /\ events = <<>>
  /\ lastEvent = NoEvent
  /\ eventSourceRef = NULL
  /\ reconnectAttemptsRef = 0
  /\ reconnectTimeoutRef = NULL
  /\ sources = {}
  /\ timers = {}
  /\ errorRun = 0
  /\ filterChanged = FALSE

\* First render: both effects run; the state rendered is 'disconnected'.
Mount ==
  /\ ~mounted
  /\ connectionState = "disconnected" /\ sources = {} /\ timers = {}
  /\ mounted' = TRUE
  /\ rState' = connectionState
  /\ Store(filterEffect(IF enabled THEN connect(H, enabled, cfg) ELSE disconnect(H),
                        enabled, cfg, connectionState))
  /\ UNCHANGED <<enabled, cfg, autoReconnect, errorRun, filterChanged>>

\* A render caused by a change of React state: only the effects whose
\* dependencies changed run (connect and disconnect keep their identity).
Render ==
  /\ mounted
  /\ connectionState # rState
  /\ rState' = connectionState
  /\ Store(runEffects(H, enabled, cfg, FALSE))
  /\ UNCHANGED <<enabled, cfg, autoReconnect, mounted, errorRun, filterChanged>>

\* The caller renders the hook with other options.
ChangeOptions(en, c) ==
  /\ mounted
  /\ <<en, c>> # <<enabled, cfg>>
  /\ enabled' = en
  /\ cfg' = c
  /\ rState' = connectionState
  /\ Store(runEffects(H, en, c, TRUE))
  /\ filterChanged' = (connectionState = "connected" /\ enabled /\ en /\ c # cfg)
  /\ UNCHANGED <<autoReconnect, mounted, errorRun>>

\* The caller calls disconnect().
DisconnectCall ==
  /\ mounted
  /\ Store(disconnect(H))
  /\ UNCHANGED <<enabled, cfg, autoReconnect, mounted, rState, errorRun, filterChanged>>

\* The caller calls reconnect().
ReconnectCall ==
  /\ mounted
  /\ Store(reconnect(H, enabled, cfg))
  /\ errorRun' = 0
  /\ UNCHANGED <<enabled, cfg, autoReconnect, mounted, rState, filterChanged>>

\* The caller calls clearEvents().
ClearEventsCall ==
  /\ mounted
  /\ events # <<>>
  /\ Store(clearEvents(H))
  /\ UNCHANGED <<enabled, cfg, autoReconnect, mounted, rState, errorRun, filterChanged>>

\* A message arrives on a source that is not closed.
Message(s, type) ==
  /\ s \in sources
  /\ type = "data_update" => Len(events) < MaxEvents
  /\ \E id \in ServerIds :
       Store(handleMessage(H, [type |-> type, clientId |-> id,
                               subscriptionId |-> id,
                               event |-> [cfg |-> s.cfg]]))
  /\ errorRun' = IF type = "connected" THEN 0 ELSE errorRun
  /\ UNCHANGED <<enabled, cfg, autoReconnect, mounted, rState, filterChanged>>

\* A source reports an error.  The platform either gives the source up
\* (fatal: readyState CLOSED) or keeps retrying it on its own.
StreamError(s, fatal) ==
  /\ s \in sources
  /\ CanSchedule(H, autoReconnect)
  /\ LET h == onerror(H, autoReconnect, s.cfg)
     IN Store(IF fatal THEN [h EXCEPT !.sources = closeSource(h.sources, s.id)] ELSE h)
  /\ errorRun' = IF errorRun <= MaxReconnectAttempts THEN errorRun + 1 ELSE errorRun
  /\ UNCHANGED <<enabled, cfg, autoReconnect, mounted, rState, filterChanged>>

\* A reconnect timer fires: the connect() of the render that opened the source.
TimerFire(t) ==
  /\ t \in timers
  /\ Store(connect([H EXCEPT !.timers = timers \ {t}], TRUE, t.cfg))
  /\ UNCHANGED <<enabled, cfg, autoReconnect, mounted, rState, errorRun, filterChanged>>

\* Steps the caller takes, and steps that happen on their own.
CallerStep ==
  \/ Mount
  \/ DisconnectCall
  \/ ReconnectCall
  \/ ClearEventsCall
  \/ \E en \in BOOLEAN, c \in Cfgs : ChangeOptions(en, c)

AutomaticStep ==
  \/ Render
  \/ \E s \in sources, type \in MessageTypes : Message(s, type)
  \/ \E s \in sources, fatal \in BOOLEAN : StreamError(s, fatal)
  \/ \E t \in timers : TimerFire(t)

\* ------------------------------------------- IndexerService / IndexerClient
\* The service is driven by one caller at a time.  Time is Date.now(), in
\* units of which CACHE_TTL is a small number; it advances between any two
\* steps, also while a request is in flight.
CACHE_TTL == 2              \* config.cacheTTL
MaxTime == 3                \* last instant Date.now() reaches

Wallets == {"w1"}
Limits == {"50"}            \* getActiveMarkets(limit), as the key prints it
NFTLists == {<<>>, <<"A", "B">>}          \* data of a /api/dealers reply
\* A market record: its id, and the reply that carried this copy of it.
Market(id, nft) == [id |-> id, from |-> nft]
MarketsOfNFT ==
  [A |-> <<Market("m1", "A"), Market("m2", "A")>>,
   B |-> <<Market("m2", "B"), Market("m3", "B")>>]
MarketPage == <<"m1", "m2">>              \* data of a /api/markets reply

\* An optional value: <<>> is undefined / null, <<v>> is the value v.
None == <<>>
Some(v) == <<v>>

\* Reply envelopes (ApiResponse / PaginatedResponse): success and data.
OkEnvelope(data) == [success |-> TRUE, data |-> Some(data)]
ErrEnvelope == [success |-> FALSE, data |-> None]

\* What FetchNetworkClient.request gives for one request: it throws
\* (failed), or it resolves with ok (2xx or not) and the parsed body.
NetworkResponses(payloads) ==
  {[failed |-> TRUE, ok |-> FALSE, body |-> None]}
    \cup {[failed |-> FALSE, ok |-> o, body |-> b] :
            o \in BOOLEAN,
            b \in {None, Some(ErrEnvelope)} \cup {Some(OkEnvelope(p)) : p \in payloads}}

Threw == [threw |-> TRUE, value |-> ErrEnvelope]

\* IndexerClient.getMarkets / getDealers / getDealerMarkets: the request
\* throws, or the reply is rejected when !response.ok || !response.data,
\* or response.data is returned as it is.
getMarkets(resp) ==
  IF resp.failed THEN Threw
  ELSE IF ~resp.ok \/ resp.body = None THEN Threw
  ELSE [threw |-> FALSE, value |-> resp.body[1]]

getDealers(resp) ==
  IF resp.failed THEN Threw
  ELSE IF ~resp.ok \/ resp.body = None THEN Threw
  ELSE [threw |-> FALSE, value |-> resp.body[1]]

getDealerMarkets(resp) ==
  IF resp.failed THEN Threw
  ELSE IF ~resp.ok \/ resp.body = None THEN Threw
  ELSE [threw |-> FALSE, value |-> resp.body[1]]

VARIABLES
  cache,      \* the Map: key -> [data, expires] (setAt: when it was stored)
  now,        \* Date.now()
  call        \* the operation in progress and its outcome

svcVars == <<cache, now, call>>

RECURSIVE JoinColon(_)
JoinColon(args) ==
  IF Len(args) = 0 THEN ""
  ELSE IF Len(args) = 1 THEN args[1]
  ELSE args[1] \o ":" \o JoinColon(Tail(args))

\* args are strings and numbers here; each prints as itself.
getCacheKey(args) == JoinColon(args)

CacheKeys ==
  {getCacheKey(<<"active-markets", l>>) : l \in Limits}
    \cup {getCacheKey(<<n, w>>) : n \in {"dealer-nfts", "dealer-dashboard"}, w \in Wallets}

Remove(c, key) == [k \in DOMAIN c \ {key} |-> c[k]]

\* getCache: the value and the cache it leaves behind.  value is None for
\* null, Some(data) for a hit (data itself may be undefined).
getCache_Inclusive(c, key, t) ==
  IF key \in DOMAIN c /\ c[key].expires >= t
    THEN [cache |-> c, value |-> Some(c[key].data)]
    ELSE [cache |-> Remove(c, key), value |-> None]

getCache(c, key, t) ==
  IF key \in DOMAIN c /\ c[key].expires > t
    THEN [cache |-> c, value |-> Some(c[key].data)]
    ELSE [cache |-> Remove(c, key), value |-> None]

\* A setCache that drops every other entry, for comparison.
setCache_Invalidating(c, key, data, t) ==
  key :> [data |-> data, expires |-> t + CACHE_TTL, setAt |-> t]

setCache(c, key, data, t) ==
  (key :> [data |-> data, expires |-> t + CACHE_TTL, setAt |-> t]) @@ c

\* `if (cached)`: null and undefined are falsy, objects and arrays truthy.
Truthy(value) == value # None /\ value[1] # None

Idle ==
  [op |-> "idle", pc |-> "idle", key |-> "", wallet |-> "",
   nfts |-> None, pending |-> {}, got |-> <<>>, result |-> None,
   wrote |-> {}, lookups |-> <<>>]

\* History of one getCache call: what the entry was and what came back.
Lookup(c, key, t, value) ==
  [key |-> key,
   entry |-> IF key \in DOMAIN c THEN Some(c[key]) ELSE None,
   at |-> t,
   value |-> value]

Returned(cl, result) == [cl EXCEPT !.pc = "returned", !.result = Some(result), !.pending = {}]
Failed(cl) == [cl EXCEPT !.pc = "failed", !.pending = {}]
Wrote(cl, key) == [cl EXCEPT !.wrote = @ \cup {key}]
Looked(cl, c, key, t, value) == [cl EXCEPT !.lookups = Append(@, Lookup(c, key, t, value))]

Range(s) == {s[i] : i \in 1..Len(s)}

\* marketsMap.set(market.id, market): a new id is appended, a known id keeps
\* its place and takes the new record.
MapSet_KeepFirst(ms, market) ==
  IF \E i \in 1..Len(ms) : ms[i].id = market.id THEN ms ELSE Append(ms, market)

MapSet(ms, market) ==
  IF \E i \in 1..Len(ms) : ms[i].id = market.id
    THEN [i \in 1..Len(ms) |-> IF ms[i].id = market.id THEN market ELSE ms[i]]
    ELSE Append(ms, market)

\* The forEach over the markets in order, then Array.from(marketsMap.values()).
RECURSIVE marketsMap(_)
marketsMap(ms) ==
  IF Len(ms) = 0 THEN <<>>
  ELSE MapSet(marketsMap(SubSeq(ms, 1, Len(ms) - 1)), ms[Len(ms)])

RECURSIVE Flatten(_, _)
Flatten(nfts, got) ==
  IF Len(nfts) = 0 THEN <<>>
  ELSE LET result == got[Head(nfts)]
       IN (IF result.data # None THEN result.data[1] ELSE <<>>)
            \o Flatten(Tail(nfts), got)

\* getDealerDashboard once every getDealerMarkets promise has resolved.
dashboardMerge(c, cl, t) ==
  LET result == [nfts |-> cl.nfts[1], markets |-> marketsMap(Flatten(cl.nfts[1], cl.got))]
  IN [cache |-> setCache(c, cl.key, Some(result), t),
      call |-> Returned(Wrote(cl, cl.key), result)]

\* getDealerDashboard once getDealerNFTs has resolved with nfts: nfts.map
\* throws on undefined; Promise.all of no promise resolves at once.
dashboardFanOut(c, cl, nfts, t) ==
  IF nfts = None THEN [cache |-> c, call |-> Failed(cl)]
  ELSE IF Len(nfts[1]) = 0 THEN dashboardMerge(c, [cl EXCEPT !.nfts = nfts], t)
  ELSE [cache |-> c,
        call |-> [cl EXCEPT !.pc = "awaitDealerMarkets", !.nfts = nfts,
                            !.pending = Range(nfts[1])]]

\* getDealerNFTs up to its await, inside operation cl.
dealerNFTsStart(c, cl, w, t) ==
  LET key == getCacheKey(<<"dealer-nfts", w>>)
      got == getCache(c, key, t)
      cl1 == Looked(cl, c, key, t, got.value)
  IN IF Truthy(got.value)
       THEN [cache |-> got.cache, hit |-> TRUE, nfts |-> got.value[1], call |-> cl1]
       ELSE [cache |-> got.cache, hit |-> FALSE, nfts |-> None, call |-> cl1]

SvcInit ==
  /\ cache = <<>>
  /\ now = 0
  /\ call = Idle

\* getActiveMarkets(limit) up to its await.
StartActiveMarkets(limit) ==
  /\ call.pc = "idle"
  /\ LET key == getCacheKey(<<"active-markets", limit>>)
         got == getCache(cache, key, now)
         cl == Looked([Idle EXCEPT !.op = "getActiveMarkets", !.key = key],
                      cache, key, now, got.value)
     IN /\ cache' = got.cache
        /\ call' = IF Truthy(got.value) THEN Returned(cl, got.value[1][1])
                   ELSE [cl EXCEPT !.pc = "awaitMarkets"]
  /\ UNCHANGED now

\* The /api/markets request of getActiveMarkets settles.
MarketsResponse(resp) ==
  /\ call.pc = "awaitMarkets"
  /\ LET r == getMarkets(resp)
     IN IF r.threw
          THEN cache' = cache /\ call' = Failed(call)
          ELSE /\ cache' = setCache(cache, call.key, Some(r.value), now)
               /\ call' = Returned(Wrote(call, call.key), r.value)
  /\ UNCHANGED now

\* getDealerNFTs(wallet) up to its await.
StartDealerNFTs(w) ==
  /\ call.pc = "idle"
  /\ LET key == getCacheKey(<<"dealer-nfts", w>>)
         s == dealerNFTsStart(cache, [Idle EXCEPT !.op = "getDealerNFTs", !.key = key,
                                                  !.wallet = w], w, now)
     IN /\ cache' = s.cache
        /\ call' = IF s.hit THEN Returned([s.call EXCEPT !.nfts = s.nfts], s.nfts[1])
                   ELSE [s.call EXCEPT !.pc = "awaitDealers"]
  /\ UNCHANGED now

\* getDealerDashboard(wallet) up to its first await that needs the network.
StartDealerDashboard(w) ==
  /\ call.pc = "idle"
  /\ LET key == getCacheKey(<<"dealer-dashboard", w>>)
         got == getCache(cache, key, now)
         cl == Looked([Idle EXCEPT !.op = "getDealerDashboard", !.key = key,
                                   !.wallet = w], cache, key, now, got.value)
     IN IF Truthy(got.value)
          THEN cache' = got.cache /\ call' = Returned(cl, got.value[1][1])
          ELSE LET s == dealerNFTsStart(got.cache, cl, w, now)
                   f == dashboardFanOut(s.cache, s.call, s.nfts, now)
               IN IF s.hit
                    THEN cache' = f.cache /\ call' = f.call
                    ELSE cache' = s.cache /\ call' = [s.call EXCEPT !.pc = "awaitDealers"]
  /\ UNCHANGED now

\* The /api/dealers request of getDealerNFTs settles; getDealerDashboard
\* goes on with the NFTs it got.
DealersResponse(resp) ==
  /\ call.pc = "awaitDealers"
  /\ LET r == getDealers(resp)
         nftsKey == getCacheKey(<<"dealer-nfts", call.wallet>>)
         nfts == r.value.data
         c1 == setCache(cache, nftsKey, nfts, now)
         cl1 == Wrote(call, nftsKey)
         f == dashboardFanOut(c1, cl1, nfts, now)
     IN IF r.threw
          THEN cache' = cache /\ call' = Failed(call)
          ELSE IF call.op = "getDealerNFTs"
            THEN cache' = c1 /\ call' = [cl1 EXCEPT !.pc = "returned", !.nfts = nfts,
                                                    !.result = nfts]
            ELSE cache' = f.cache /\ call' = f.call
  /\ UNCHANGED now

\* The markets query of the useDealerDashboard hook once every
\* getDealerMarkets promise has resolved: the same merge, nothing cached.
queryMerge(cl) == Returned(cl, marketsMap(Flatten(cl.nfts[1], cl.got)))

\* queryFn of the markets query of useDealerDashboard, run with nfts.data
\* as the NFT query holds it (None: no data yet).
StartDashboardQuery(nfts) ==
  /\ call.pc = "idle"
  /\ LET cl == [Idle EXCEPT !.op = "useDealerDashboard", !.nfts = nfts]
     IN call' = IF nfts = None \/ Len(nfts[1]) = 0 THEN Returned(cl, <<>>)
                ELSE [cl EXCEPT !.pc = "awaitDealerMarkets", !.pending = Range(nfts[1])]
  /\ UNCHANGED <<cache, now>>

\* One /api/dealers/:id/markets request of getDealerDashboard, or of the
\* markets query of useDealerDashboard, settles.
\* Promise.all rejects with the first rejection and resolves with the last
\* resolution.
DealerMarketsResponse(nft, resp) ==
  /\ call.pc = "awaitDealerMarkets"
  /\ nft \in call.pending
  /\ LET r == getDealerMarkets(resp)
         cl1 == [call EXCEPT !.pending = @ \ {nft}, !.got = (nft :> r.value) @@ @]
         m == dashboardMerge(cache, cl1, now)
     IN IF r.threw
          THEN cache' = cache /\ call' = Failed(call)
          ELSE IF cl1.pending # {}
            THEN cache' = cache /\ call' = cl1
            ELSE IF call.op = "useDealerDashboard"
              THEN cache' = cache /\ call' = queryMerge(cl1)
              ELSE cache' = m.cache /\ call' = m.call
  /\ UNCHANGED now

\* The caller has its result or its error.
\* ---------------------------------------------------------------------------
\* new IndexerService(config).  An error message is the sequence of its
\* words; `created` lists what the construction has created, in order.
DEFAULT_CACHE_TTL == 5      \* 5 * 60 * 1000 ms, in minutes

ServiceConfigs ==
  [indexerUrl : {"", "http://localhost:42069"},
   networkClient : {None, Some("mockNetworkClient")},
   cacheTTL : {None, Some(0), Some(CACHE_TTL)}]

IndexerUrlRequired == <<"indexerUrl", "is", "required", "in", "IndexerServiceConfig">>

\* A constructor without the indexerUrl check, for comparison.
IndexerService_NoCheck(config) ==
  [config |-> config,
   thrown |-> None,
   created |-> <<"cache", "fetchClient", "indexerClient">>,
   instance |-> Some([indexerUrl |-> config.indexerUrl,
                      CACHE_TTL |-> IF config.cacheTTL = None \/ config.cacheTTL = Some(0)
                                      THEN DEFAULT_CACHE_TTL ELSE config.cacheTTL[1]])]

\* The field initializer of `cache` runs before the constructor's body; the
\* body reads config.indexerUrl and config.cacheTTL only.
IndexerService(config) ==
  IF config.indexerUrl = ""
    THEN [config |-> config,
          thrown |-> Some(IndexerUrlRequired),
          created |-> <<"cache">>,
          instance |-> None]
    ELSE [config |-> config,
          thrown |-> None,
          created |-> <<"cache", "fetchClient", "indexerClient">>,
          instance |-> Some([indexerUrl |-> config.indexerUrl,
                             CACHE_TTL |-> IF config.cacheTTL = None \/ config.cacheTTL = Some(0)
                                             THEN DEFAULT_CACHE_TTL ELSE config.cacheTTL[1]])]

\* A caller constructs a further service; the one in use keeps its cache.
Construct(config) ==
  /\ call.pc = "idle"
  /\ LET r == IndexerService(config)
     IN call' = [Idle EXCEPT !.op = "construct",
                             !.pc = IF r.thrown = None THEN "returned" ELSE "failed",
                             !.result = Some(r)]
  /\ UNCHANGED <<cache, now>>

Settle ==
  /\ call.pc \in {"returned", "failed"}
  /\ call' = Idle
  /\ UNCHANGED <<cache, now>>

ClearCache ==
  /\ cache # <<>>
  /\ cache' = <<>>
  /\ UNCHANGED <<now, call>>

Tick ==
  /\ now < MaxTime
  /\ now' = now + 1
  /\ UNCHANGED <<cache, call>>

\* ------------------------------------------------ getUserPredictions and keys
\* A filters object is the sequence of its properties in insertion order;
\* each property carries its name and its value as JSON prints it.
FilterMarket == [name |-> "market", json |-> "\"m1\""]
FilterClaimed == [name |-> "claimed", json |-> "true"]
FilterObjects ==
  {<<FilterMarket, FilterClaimed>>, <<FilterClaimed, FilterMarket>>, <<FilterMarket>>}
PredictionPage == <<"p1">>                \* data of a /api/predictions reply

\* Deep equality of two objects: the same properties with the same values.
DeepEqual(o1, o2) == Range(o1) = Range(o2)

RECURSIVE JoinComma(_)
JoinComma(parts) ==
  IF Len(parts) = 0 THEN ""
  ELSE IF Len(parts) = 1 THEN parts[1]
  ELSE parts[1] \o "," \o JoinComma(Tail(parts))

\* JSON.stringify of an object: its properties in insertion order.
stringify(obj) ==
  "{" \o JoinComma([i \in 1..Len(obj) |-> "\"" \o obj[i].name \o "\":" \o obj[i].json]) \o "}"

userPredictionsKey(w, filters) == getCacheKey(<<"user-predictions", w, stringify(filters)>>)

getPredictions(resp) ==
  IF resp.failed THEN Threw
  ELSE IF ~resp.ok \/ resp.body = None THEN Threw
  ELSE [threw |-> FALSE, value |-> resp.body[1]]

\* getUserPredictions(wallet, filters) up to its await.
StartUserPredictions(w, filters) ==
  /\ call.pc = "idle"
  /\ LET key == userPredictionsKey(w, filters)
         got == getCache(cache, key, now)
         cl == Looked([Idle EXCEPT !.op = "getUserPredictions", !.key = key, !.wallet = w],
                      cache, key, now, got.value)
     IN /\ cache' = got.cache
        /\ call' = IF Truthy(got.value) THEN Returned(cl, got.value[1][1])
                   ELSE [cl EXCEPT !.pc = "awaitPredictions"]
  /\ UNCHANGED now

\* The /api/predictions request of getUserPredictions settles.
PredictionsResponse(resp) ==
  /\ call.pc = "awaitPredictions"
  /\ LET r == getPredictions(resp)
     IN IF r.threw
          THEN cache' = cache /\ call' = Failed(call)
          ELSE /\ cache' = setCache(cache, call.key, Some(r.value), now)
               /\ call' = Returned(Wrote(call, call.key), r.value)
  /\ UNCHANGED now

\* ------------------------------------------------------------ favorites store
\* The zustand store of wallet favorites.  A wallet address is the sequence
\* of its characters; a favorite record is its id and its itemId.  Date.now()
\* is the clock `now`, which is positive here.
MaxFavs == 2                \* longest favorites list
DEFAULT_MAX_AGE == 2        \* default maxAge of needsRefresh

Addresses == {<<"0", "x", "a", "b">>, <<"0", "x", "A", "b">>}
Items == {"team-1", "team-2"}
ServerIdOf == [i \in Items |-> IF i = "team-1" THEN 0 ELSE 42]   \* ids the server gives
Favorite(id, item) == [id |-> id, itemId |-> item]
ServerLists ==
  {<<>>, <<Favorite(ServerIdOf["team-1"], "team-1")>>,
   <<Favorite(ServerIdOf["team-2"], "team-2"), Favorite(ServerIdOf["team-1"], "team-1")>>}

VARIABLES
  walletFavorites,   \* normalized address -> [favorites, lastFetched]
  fetchedAt,         \* history: normalized address -> time of the last setFavorites
  lastOp             \* history: the last operation called on the store directly

\* String.prototype.toLowerCase, letter by letter.
LowerChar(ch) ==
  CASE ch = "A" -> "a"
    [] ch = "B" -> "b"
    [] ch = "X" -> "x"
    [] OTHER -> ch

toLowerCase_Identity(addr) == addr

toLowerCase(addr) == [i \in 1..Len(addr) |-> LowerChar(addr[i])]

\* createTempId() at time t.
createTempId(t) == 0 - t

NoWalletState == [favorites |-> <<>>, lastFetched |-> None]

Filter(favs, Keep(_)) ==
  LET F[n \in 0..Len(favs)] ==
        IF n = 0 THEN <<>>
        ELSE IF Keep(favs[n]) THEN Append(F[n - 1], favs[n]) ELSE F[n - 1]
  IN F[Len(favs)]

getFavorites(wf, walletAddress) ==
  LET normalized == toLowerCase(walletAddress)
  IN IF normalized \in DOMAIN wf THEN wf[normalized].favorites ELSE <<>>

\* A setFavorites that keeps the addressed wallet only.
setFavorites_Only(wf, walletAddress, favorites, t) ==
  LET normalized == toLowerCase(walletAddress)
  IN normalized :> [favorites |-> favorites, lastFetched |-> Some(t)]

setFavorites(wf, walletAddress, favorites, t) ==
  LET normalized == toLowerCase(walletAddress)
  IN (normalized :> [favorites |-> favorites, lastFetched |-> Some(t)]) @@ wf

\* An addFavoriteOptimistic that stamps the wallet as fetched.
addFavoriteOptimistic_Stamped(wf, walletAddress, item, t) ==
  LET normalized == toLowerCase(walletAddress)
      tempFavorite == Favorite(createTempId(t), item)
      current == IF normalized \in DOMAIN wf THEN wf[normalized] ELSE NoWalletState
  IN (normalized :> [favorites |-> Append(current.favorites, tempFavorite),
                     lastFetched |-> Some(t)]) @@ wf

addFavoriteOptimistic(wf, walletAddress, item, t) ==
  LET normalized == toLowerCase(walletAddress)
      tempFavorite == Favorite(createTempId(t), item)
      current == IF normalized \in DOMAIN wf THEN wf[normalized] ELSE NoWalletState
  IN (normalized :> [current EXCEPT !.favorites = Append(@, tempFavorite)]) @@ wf

updateFavoriteFromServer_Append(wf, walletAddress, favorite) ==
  LET normalized == toLowerCase(walletAddress)
      Kept(f) == ~(f.id < 0 /\ f.itemId = favorite.itemId)
  IN IF normalized \notin DOMAIN wf THEN wf
     ELSE [wf EXCEPT ![normalized].favorites = Append(Filter(@, Kept), favorite)]

updateFavoriteFromServer(wf, walletAddress, favorite) ==
  LET normalized == toLowerCase(walletAddress)
  IN IF normalized \notin DOMAIN wf THEN wf
     ELSE [wf EXCEPT ![normalized].favorites =
             [i \in 1..Len(@) |-> IF @[i].id < 0 /\ @[i].itemId = favorite.itemId
                                    THEN favorite ELSE @[i]]]

removeFavoriteOptimistic(wf, walletAddress, favoriteId) ==
  LET normalized == toLowerCase(walletAddress)
      Kept(f) == f.id # favoriteId
  IN IF normalized \notin DOMAIN wf THEN wf
     ELSE [wf EXCEPT ![normalized].favorites = Filter(@, Kept)]

rollbackAdd_TempOnly(wf, walletAddress, itemId) ==
  LET normalized == toLowerCase(walletAddress)
      Kept(f) == f.itemId # itemId \/ f.id >= 0
  IN IF normalized \notin DOMAIN wf THEN wf
     ELSE [wf EXCEPT ![normalized].favorites = Filter(@, Kept)]

rollbackAdd(wf, walletAddress, itemId) ==
  LET normalized == toLowerCase(walletAddress)
      Kept(f) == f.itemId # itemId
  IN IF normalized \notin DOMAIN wf THEN wf
     ELSE [wf EXCEPT ![normalized].favorites = Filter(@, Kept)]

rollbackRemove(wf, walletAddress, favorite) ==
  LET normalized == toLowerCase(walletAddress)
      current == IF normalized \in DOMAIN wf THEN wf[normalized] ELSE NoWalletState
  IN (normalized :> [current EXCEPT !.favorites = Append(@, favorite)]) @@ wf

isFavorite(wf, walletAddress, itemId) ==
  \E f \in Range(getFavorites(wf, walletAddress)) : f.itemId = itemId

\* favorites.find: the first match, None for undefined.
findFavorite(wf, walletAddress, itemId) ==
  LET favorites == getFavorites(wf, walletAddress)
      hits == {i \in 1..Len(favorites) : favorites[i].itemId = itemId}
  IN IF hits = {} THEN None
     ELSE Some(favorites[CHOOSE i \in hits : \A j \in hits : i <= j])

clearFavorites(wf, walletAddress) ==
  LET normalized == toLowerCase(walletAddress)
  IN [k \in DOMAIN wf \ {normalized} |-> wf[k]]

clearAll == <<>>

needsRefresh_Inclusive(wf, walletAddress, maxAge, t) ==
  LET normalized == toLowerCase(walletAddress)
  IN IF normalized \notin DOMAIN wf THEN TRUE
     ELSE IF wf[normalized].lastFetched = None THEN TRUE
     ELSE t - wf[normalized].lastFetched[1] >= maxAge

needsRefresh(wf, walletAddress, maxAge, t) ==
  LET normalized == toLowerCase(walletAddress)
  IN IF normalized \notin DOMAIN wf THEN TRUE
     ELSE IF wf[normalized].lastFetched = None THEN TRUE
     ELSE t - wf[normalized].lastFetched[1] > maxAge

favVars == <<walletFavorites, fetchedAt, lastOp>>

\* History of the last store operation, with the wallet's list before it.
NoOp == [name |-> "none", wallet |-> <<>>, item |-> "", id |-> 0, before |-> <<>>]

Did(name, a, item, id) ==
  lastOp' = [name |-> name, wallet |-> toLowerCase(a), item |-> item, id |-> id,
             before |-> getFavorites(walletFavorites, a)]

FavInit ==
  /\ walletFavorites = <<>>
  /\ fetchedAt = <<>>
  /\ lastOp = NoOp

\* Room for one more record in the wallet's list.
HasRoom(walletAddress) == Len(getFavorites(walletFavorites, walletAddress)) < MaxFavs

\* ------------------------------------------- the store's operations, called
SetFavorites(a, favorites) ==
  /\ walletFavorites' = setFavorites(walletFavorites, a, favorites, now)
  /\ fetchedAt' = (toLowerCase(a) :> now) @@ fetchedAt
  /\ Did("setFavorites", a, "", 0)

AddFavoriteOptimistic(a, item) ==
  /\ HasRoom(a)
  /\ walletFavorites' = addFavoriteOptimistic(walletFavorites, a, item, now)
  /\ UNCHANGED fetchedAt
  /\ Did("addFavoriteOptimistic", a, item, 0)

UpdateFavoriteFromServer(a, favorite) ==
  /\ walletFavorites' = updateFavoriteFromServer(walletFavorites, a, favorite)
  /\ UNCHANGED fetchedAt
  /\ Did("updateFavoriteFromServer", a, favorite.itemId, favorite.id)

RemoveFavoriteOptimistic(a, favoriteId) ==
  /\ walletFavorites' = removeFavoriteOptimistic(walletFavorites, a, favoriteId)
  /\ UNCHANGED fetchedAt
  /\ Did("removeFavoriteOptimistic", a, "", favoriteId)

RollbackAdd(a, item) ==
  /\ walletFavorites' = rollbackAdd(walletFavorites, a, item)
  /\ UNCHANGED fetchedAt
  /\ Did("rollbackAdd", a, item, 0)

RollbackRemove(a, favorite) ==
  /\ HasRoom(a)
  /\ walletFavorites' = rollbackRemove(walletFavorites, a, favorite)
  /\ UNCHANGED fetchedAt
  /\ Did("rollbackRemove", a, favorite.itemId, favorite.id)

ClearFavorites(a) ==
  /\ walletFavorites' = clearFavorites(walletFavorites, a)
  /\ fetchedAt' = [k \in DOMAIN fetchedAt \ {toLowerCase(a)} |-> fetchedAt[k]]
  /\ Did("clearFavorites", a, "", 0)

ClearAll ==
  /\ walletFavorites' = clearAll
  /\ fetchedAt' = <<>>
  /\ lastOp' = NoOp

\* The records a caller can hold: those in the store, those the last
\* operation found there, and the server's.
KnownFavorites ==
  UNION {Range(walletFavorites[k].favorites) : k \in DOMAIN walletFavorites}
    \cup Range(lastOp.before)
    \cup {Favorite(ServerIdOf[i], i) : i \in Items}

\* ------------------------------------------------------------- useFavorites
\* The favorites hook of one component: its walletAddress and filters
\* arguments, its query, its sync effect and its add mutations.
STALE_TIME == 1             \* staleTime of the favorites query

FavoritesFilters == {None, Some([limit |-> 1])}
EmptyEnvelope == [success |-> TRUE, data |-> None]

VARIABLES
  propWallet,        \* the walletAddress argument, None when undefined
  propFilters,       \* the filters argument, None when undefined
  query,             \* the favorites query of the reactive layer
  syncDue,           \* the sync effect has to run (query.data changed)
  addMutations       \* item -> state of the last add mutation issued for it

hookVars == <<propWallet, propFilters, query, syncDue, addMutations>>

\* What the transport gives for GET and POST /api/wallet/:address/favorites.
FavoritesResponses == NetworkResponses(ServerLists)
AddResponses(item) ==
  NetworkResponses({Favorite(ServerIdOf[item], item)})
    \cup {[failed |-> FALSE, ok |-> o, body |-> Some(EmptyEnvelope)] : o \in BOOLEAN}

\* IndexerClient.getFavorites / addFavorite: one transport call; a transport
\* failure, a non-OK status, a missing body and success:false are raised,
\* otherwise the envelope is returned.
client_getFavorites(resp) ==
  IF resp.failed THEN Threw
  ELSE IF ~resp.ok \/ resp.body = None THEN Threw
  ELSE IF ~resp.body[1].success THEN Threw
  ELSE [threw |-> FALSE, value |-> resp.body[1]]

client_addFavorite(resp) ==
  IF resp.failed THEN Threw
  ELSE IF ~resp.ok \/ resp.body = None THEN Threw
  ELSE IF ~resp.body[1].success THEN Threw
  ELSE [threw |-> FALSE, value |-> resp.body[1]]

NoQuery ==
  [status |-> "pending", data |-> None, fetching |-> FALSE,
   invalidated |-> FALSE, updatedAt |-> 0]

\* The hook's arguments with nothing issued.
HookIdle ==
  query = NoQuery /\ syncDue = FALSE /\ addMutations = [i \in Items |-> "idle"]

HookInit ==
  /\ propWallet \in {None, Some(<<"0", "x", "A", "b">>)}
  /\ propFilters \in FavoritesFilters
  /\ HookIdle

storedFavorites ==
  IF propWallet = None THEN <<>> ELSE getFavorites(walletFavorites, propWallet[1])

\* The enabled option of the query.
queryEnabled ==
  IF propWallet = None THEN FALSE
  ELSE needsRefresh(walletFavorites, propWallet[1], DEFAULT_MAX_AGE, now)
         \/ Len(storedFavorites) = 0

\* The reactive layer fetches for an enabled query without fresh data.
queryStale ==
  query.data = None \/ query.invalidated \/ now - query.updatedAt >= STALE_TIME

\* `!filters`: the store takes the server list of an unfiltered fetch only.
overwritesStore_Always(f) == TRUE

overwritesStore(f) == f = None

\* The store operations as the hook calls them (lastOp records the calls made
\* on the store directly).
HookSetFavorites(a, favorites) ==
  /\ walletFavorites' = setFavorites(walletFavorites, a, favorites, now)
  /\ fetchedAt' = (toLowerCase(a) :> now) @@ fetchedAt
  /\ UNCHANGED lastOp

HookStore(wf) == walletFavorites' = wf /\ UNCHANGED <<fetchedAt, lastOp>>

\* The query starts a fetch: queryFn runs up to its await.
QueryFetch ==
  /\ ~query.fetching
  /\ queryEnabled
  /\ queryStale
  /\ query' = [query EXCEPT !.fetching = TRUE]
  /\ UNCHANGED <<propWallet, propFilters, syncDue, addMutations, favVars>>

\* client.getFavorites settles and queryFn runs to its end.
QueryResolve(resp) ==
  /\ query.fetching
  /\ LET r == client_getFavorites(resp)
     IN IF r.threw
          THEN /\ query' = [query EXCEPT !.status = "error", !.fetching = FALSE]
               /\ UNCHANGED <<syncDue, favVars>>
          ELSE /\ IF overwritesStore(propFilters)
                    THEN HookSetFavorites(propWallet[1],
                                          IF r.value.data = None THEN <<>> ELSE r.value.data[1])
                    ELSE UNCHANGED favVars
               /\ query' = [status |-> "success", data |-> Some(r.value),
                            fetching |-> FALSE, invalidated |-> FALSE,
                            updatedAt |-> now]
               /\ syncDue' = TRUE
  /\ UNCHANGED <<propWallet, propFilters, addMutations>>

\* The sync effect runs after query.data has changed.
SyncEffect ==
  /\ syncDue
  /\ syncDue' = FALSE
  /\ IF /\ query.data # None
        /\ query.data[1].data # None
        /\ propWallet # None
        /\ overwritesStore(propFilters)
       THEN HookSetFavorites(propWallet[1], query.data[1].data[1])
       ELSE UNCHANGED favVars
  /\ UNCHANGED <<propWallet, propFilters, query, addMutations>>

\* refresh(): invalidateQueries marks the query; it is refetched while enabled.
Refresh ==
  /\ propWallet # None
  /\ ~query.invalidated
  /\ query' = [query EXCEPT !.invalidated = TRUE]
  /\ UNCHANGED <<propWallet, propFilters, syncDue, addMutations, favVars>>

\* addFavorite.mutate(favorite): onMutate, then mutationFn up to its await.
\* One add mutation per item is in flight at a time.
AddMutate(item) ==
  /\ addMutations[item] # "pending"
  /\ addMutations' = [addMutations EXCEPT ![item] = "pending"]
  /\ IF propWallet = None
       THEN UNCHANGED favVars
       ELSE /\ HasRoom(propWallet[1])
            /\ HookStore(addFavoriteOptimistic(walletFavorites, propWallet[1], item, now))
  /\ UNCHANGED <<propWallet, propFilters, query, syncDue>>

\* The add mutation for the item settles: mutationFn ends, then onSuccess or
\* onError.
AddSettle(item, resp) ==
  /\ addMutations[item] = "pending"
  /\ LET r == IF propWallet = None THEN Threw ELSE client_addFavorite(resp)
     IN IF r.threw
          THEN /\ addMutations' = [addMutations EXCEPT ![item] = "error"]
               /\ IF propWallet = None
                    THEN UNCHANGED favVars
                    ELSE HookStore(rollbackAdd(walletFavorites, propWallet[1], item))
          ELSE /\ addMutations' = [addMutations EXCEPT ![item] = "success"]
               /\ IF r.value.data = None
                    THEN UNCHANGED favVars
                    ELSE HookStore(updateFavoriteFromServer(walletFavorites, propWallet[1],
                                                            r.value.data[1]))
  /\ UNCHANGED <<propWallet, propFilters, query, syncDue>>

\* ===========================================================================
\* The query hooks: each is one useQuery call of the reactive layer.  Times
\* are in minutes.
\*   family    second element of the query key
\*   keyed     "id": the key ends with the identifier; "filters": it ends
\*             with the filters object; "none": the key has two elements
\*   filters   the fixed part of the filters a wrapper passes on
\*   guard     "none":   no `enabled` of its own, options.enabled decides
\*             "spread": `enabled: !!id` followed by `...options`
\*             "and":    `enabled: !!id && (options?.enabled ?? true)`
\*             "nfts":   `!!walletAddress && !!nfts.data && nfts.data.length > 0`
\*   noId      what queryFn does without the identifier: "throw", "value"
\*             (returns a value without a request) or "call"
QueryHook(name, family, keyed, filters, staleTime, guard, noId) ==
  [name |-> name, family |-> family, keyed |-> keyed, filters |-> filters,
   staleTime |-> staleTime, guard |-> guard, noId |-> noId]

PredictionHooks ==
  {QueryHook("usePredictions", "predictions", "filters", "", 1, "none", "call"),
   QueryHook("useActiveBets", "predictions", "filters", "claimed:false", 1, "and", "call"),
   QueryHook("usePastBets", "predictions", "filters", "claimed:true", 1, "and", "call"),
   QueryHook("usePrediction", "prediction", "id", "", 2, "spread", "throw")}

StatsHooks ==
  {QueryHook("useMarketStats", "market-stats", "none", "", 5, "none", "call"),
   QueryHook("useHealth", "health", "none", "", 1, "none", "call"),
   QueryHook("useMarkets", "markets", "filters", "", 2, "none", "call"),
   QueryHook("useMarket", "market", "id", "", 2, "spread", "throw"),
   QueryHook("useMarketPredictions", "market-predictions", "id", "", 1, "spread", "throw"),
   QueryHook("useMarketHistory", "market-history", "id", "", 5, "spread", "throw")}

WithdrawalHooks ==
  {QueryHook("useWithdrawals", "withdrawals", "filters", "", 2, "none", "call"),
   QueryHook("useMarketWithdrawals", "withdrawals", "filters", "market", 2, "and", "call")}

DealerHooks ==
  {QueryHook("useDealers", "dealers", "filters", "", 5, "none", "call"),
   QueryHook("useIsDealer", "is-dealer", "id", "", 5, "spread", "value"),
   QueryHook("useDealerNFTs", "dealer-nfts", "id", "", 5, "spread", "value"),
   QueryHook("useDealer", "dealer", "id", "", 5, "spread", "throw"),
   QueryHook("useDealerPermissions", "dealer-permissions", "id", "", 10, "spread", "throw"),
   QueryHook("useDealerMarkets", "dealer-markets", "id", "", 2, "spread", "throw"),
   QueryHook("useDealerDashboard.markets", "dealer-dashboard-markets", "id", "", 2, "nfts", "value")}

OracleHooks ==
  {QueryHook("useOracleRequests", "oracle-requests", "filters", "", 1, "none", "call"),
   QueryHook("useOracleRequest", "oracle-request", "id", "", 2, "spread", "throw"),
   QueryHook("useMarketOracle", "oracle-requests", "filters", "market", 1, "and", "call")}

QueryHooks == PredictionHooks \cup StatsHooks \cup WithdrawalHooks \cup DealerHooks \cup OracleHooks

HookNamed(name) == CHOOSE h \in QueryHooks : h.name = name

\* The identifier a caller passes (or undefined), and those of the events.
Undefined == "undefined"
Ids == {"1-market-9"}
EventIds == {"1-market-9", "1-market-7"}

\* An observer: one hook called with an identifier (or none) and the
\* caller's options.enabled (None: not given).
EnabledOptions == {None, Some(TRUE), Some(FALSE)}

queryKey(o) ==
  CASE o.hook.keyed = "none" -> <<"heavymath", o.hook.family>>
    [] o.hook.keyed = "id" -> <<"heavymath", o.hook.family, o.arg>>
    [] OTHER -> <<"heavymath", o.hook.family, "{" \o o.hook.filters \o "," \o o.arg \o "}">>

\* A key matches a filter key that is a prefix of it, element by element.
partialMatchKey(key, prefix) ==
  /\ Len(prefix) <= Len(key)
  /\ \A i \in 1..Len(prefix) : key[i] = prefix[i]

\* invalidateQueryCaches: the filter keys it hands to invalidateQueries.
\* data.marketId is None when the payload has none (or an empty one).
MarketEvents ==
  {"MarketCreated", "MarketResolved", "MarketCancelled", "MarketAbandoned", "DealerFeeSet"}
PredictionEvents ==
  {"PredictionPlaced", "PredictionUpdated", "WinningsClaimed", "RefundClaimed"}
LicenseEvents == {"LicenseIssued", "LicenseTransferred", "PermissionsSet"}
OracleEvents == {"OracleRegistered", "OracleDataUpdated"}
SSEEventTypes ==
  MarketEvents \cup PredictionEvents \cup LicenseEvents \cup OracleEvents
    \cup {"DealerFeesWithdrawn"}
EventData == [marketId : {None} \cup {Some(i) : i \in EventIds}]

\* A mapping that forgets the market of the payload, for comparison.
invalidateQueryCaches_ListsOnly(eventType, data) ==
  CASE eventType \in MarketEvents -> {<<"heavymath", "markets">>}
    [] eventType \in PredictionEvents -> {<<"heavymath", "predictions">>}
    [] eventType \in LicenseEvents -> {<<"heavymath", "dealers">>}
    [] eventType \in OracleEvents -> {<<"heavymath", "oracle">>}
    [] eventType = "DealerFeesWithdrawn" -> {<<"heavymath", "withdrawals">>}
    [] OTHER -> {}

invalidateQueryCaches(eventType, data) ==
  CASE eventType \in MarketEvents ->
         {<<"heavymath", "markets">>}
           \cup (IF data.marketId # None
                   THEN {<<"heavymath", "market", data.marketId[1]>>} ELSE {})
    [] eventType \in PredictionEvents ->
         {<<"heavymath", "predictions">>}
           \cup (IF data.marketId # None
                   THEN {<<"heavymath", "market-predictions", data.marketId[1]>>} ELSE {})
    [] eventType \in LicenseEvents -> {<<"heavymath", "dealers">>}
    [] eventType \in OracleEvents -> {<<"heavymath", "oracle">>}
    [] eventType = "DealerFeesWithdrawn" -> {<<"heavymath", "withdrawals">>}
    [] OTHER -> {}

MaxClock == 12              \* last minute the query layer's clock reaches

VARIABLES
  observers,        \* the hooks a mounted component calls, with their arguments
  invalidateOpt,    \* option `invalidateQueries` of useSSE
  queries,          \* the query cache: key -> state of the query
  clock,            \* Date.now(), in minutes
  lastRead          \* history: the last read and what served it

qVars == <<observers, invalidateOpt, queries, clock, lastRead>>

Observer(hook, arg, enabledOpt) == [hook |-> hook, arg |-> arg, enabledOpt |-> enabledOpt]

\* A query as its first observer creates it.
NewQuery ==
  [status |-> "pending", fetchStatus |-> "idle", isInvalidated |-> FALSE,
   dataUpdatedAt |-> 0, data |-> None]

NoRead == [key |-> <<>>, served |-> "none"]

\* The `enabled` the hook hands to useQuery.

enabledOf(o, qs) ==
  CASE o.hook.guard = "none" -> o.enabledOpt = None \/ o.enabledOpt[1]
    [] o.hook.guard = "spread" ->
         IF o.enabledOpt # None THEN o.enabledOpt[1] ELSE o.arg # Undefined
    [] o.hook.guard = "and" -> o.arg # Undefined /\ (o.enabledOpt = None \/ o.enabledOpt[1])
    [] OTHER ->
         /\ o.arg # Undefined
         /\ qs[<<"heavymath", "dealer-nfts", o.arg>>].data = Some("rows")

\* Result flags of a query.
isError(q) == q.status = "error"
isSuccess(q) == q.status = "success"
isLoading(q) == q.status = "pending" /\ q.fetchStatus = "fetching"

\* Data that never goes stale by time, for comparison.
isStale_Never(q, staleTime, t) == q.isInvalidated \/ q.data = None

\* Data is stale once staleTime has passed since its update, when it was
\* invalidated, and when there is none.

isStale(q, staleTime, t) ==
  q.isInvalidated \/ q.data = None \/ t >= q.dataUpdatedAt + staleTime

\* queryFn starts.  Without the identifier it throws or returns at once;
\* otherwise it awaits the Endpoint Client (fetchStatus 'fetching').
fetch(q, o, t) ==
  IF o.arg = Undefined /\ o.hook.noId = "throw"
    THEN [q EXCEPT !.status = "error", !.fetchStatus = "idle"]
  ELSE IF o.arg = Undefined /\ o.hook.noId = "value"
    THEN [q EXCEPT !.status = "success", !.fetchStatus = "idle", !.data = Some("empty"),
                   !.dataUpdatedAt = t, !.isInvalidated = FALSE]
  ELSE [q EXCEPT !.fetchStatus = "fetching",
                 !.status = IF q.data = None THEN "pending" ELSE @]

\* A read of the query by its observer (mount, focus, a new subscriber).
shouldFetch(o, qs, t) ==
  /\ enabledOf(o, qs)
  /\ qs[queryKey(o)].fetchStatus = "idle"
  /\ isStale(qs[queryKey(o)], o.hook.staleTime, t)

Read(o) ==
  /\ mounted
  /\ o \in observers
  /\ LET k == queryKey(o)
     IN /\ queries' = IF shouldFetch(o, queries, clock)
                        THEN [queries EXCEPT ![k] = fetch(@, o, clock)]
                        ELSE queries
        /\ lastRead' = [key |-> k,
                        served |-> IF ~enabledOf(o, queries) THEN "none"
                                   ELSE IF queries[k].fetchStatus = "fetching"
                                          \/ shouldFetch(o, queries, clock)
                                     THEN "fetch" ELSE "cache"]
  /\ UNCHANGED <<observers, invalidateOpt, clock>>

\* The Endpoint Client's answer to a query that is fetching.
Outcomes(o) ==
  IF o.hook.family = "dealer-nfts" THEN {"rows", "empty", "error"} ELSE {"rows", "error"}

Resolve(o, outcome) ==
  /\ o \in observers
  /\ queries[queryKey(o)].fetchStatus = "fetching"
  /\ queries' =
       [queries EXCEPT ![queryKey(o)] =
          IF outcome = "error"
            THEN [@ EXCEPT !.status = "error", !.fetchStatus = "idle"]
            ELSE [@ EXCEPT !.status = "success", !.fetchStatus = "idle",
                           !.data = Some(outcome), !.dataUpdatedAt = clock,
                           !.isInvalidated = FALSE]]
  /\ UNCHANGED <<observers, invalidateOpt, clock, lastRead>>

\* Time passes, until the longest window of the component is over.
QueryTick ==
  /\ clock < MaxClock
  /\ \E o \in observers : clock < o.hook.staleTime + 2
  /\ clock' = clock + 1
  /\ UNCHANGED <<observers, invalidateOpt, queries, lastRead>>

\* invalidateQueries({queryKey}) for each of the filter keys: the matching
\* queries are marked invalidated, and those with an enabled observer are
\* refetched.
invalidate(qs, obs, prefixes, t) ==
  [k \in DOMAIN qs |->
     IF \E p \in prefixes : partialMatchKey(k, p)
       THEN LET o == CHOOSE x \in obs : queryKey(x) = k
                q == [qs[k] EXCEPT !.isInvalidated = TRUE]
            IN IF enabledOf(o, qs) THEN fetch(q, o, t) ELSE q
       ELSE qs[k]]

\* A data_update arrives: handleMessage, whose last step invalidates the
\* query caches when the option is set.
DataUpdate(s, eventType, data) ==
  /\ Message(s, "data_update")
  /\ queries' = IF invalidateOpt
                  THEN invalidate(queries, observers, invalidateQueryCaches(eventType, data), clock)
                  ELSE queries
  /\ UNCHANGED <<observers, invalidateOpt, clock, lastRead>>

\* The components: one hook, or one of the composite hooks.
ArgsOf(hook) == IF hook.guard = "none" THEN {Undefined} ELSE {Undefined} \cup Ids

SingleComponents ==
  {{Observer(h, a, e)} :
     h \in QueryHooks \ {HookNamed("useDealerDashboard.markets")},
     a \in {Undefined} \cup Ids, e \in EnabledOptions}

useMarketDetails(marketId) ==
  {Observer(HookNamed("useMarket"), marketId, None),
   Observer(HookNamed("useMarketPredictions"), marketId, None),
   Observer(HookNamed("useMarketHistory"), marketId, None)}

useUserBettingHistory(walletAddress) ==
  {Observer(HookNamed("useActiveBets"), walletAddress, None),
   Observer(HookNamed("usePastBets"), walletAddress, None)}

useDealerDashboard(walletAddress) ==
  {Observer(HookNamed("useDealerNFTs"), walletAddress, None),
   Observer(HookNamed("useDealerDashboard.markets"), walletAddress, None)}

CompositeComponents ==
  {useMarketDetails(a) : a \in {Undefined} \cup Ids}
    \cup {useUserBettingHistory(a) : a \in {Undefined} \cup Ids}
    \cup {useDealerDashboard(a) : a \in {Undefined} \cup Ids}

\* The composite's own flags.
compositeIsLoading == \E o \in observers : isLoading(queries[queryKey(o)])
compositeIsError_All == \A o \in observers : isError(queries[queryKey(o)])
compositeIsError == \E o \in observers : isError(queries[queryKey(o)])

QueryInit(components) ==
  /\ observers \in components
  /\ \A o \in observers : o.arg \in ArgsOf(o.hook)
  /\ invalidateOpt \in BOOLEAN
  /\ queries = [k \in {queryKey(o) : o \in observers} |-> NewQuery]
  /\ clock = 1
  /\ lastRead = NoRead

\* --------------------------------------------- the service, several callers
\* getActiveMarkets called by several callers of the one service instance:
\* each call runs to its await, and resumes when its request settles.
Callers == {"c1", "c2"}

VARIABLES
  callers     \* caller -> where its getActiveMarkets call stands

concVars == <<callers>>

IdleCaller == [pc |-> "idle", key |-> "", result |-> None]

NoCallers == callers = [c \in Callers |-> IdleCaller]

\* getActiveMarkets(limit) of caller c up to its await: on a miss the
\* /api/markets request is issued.
CallerStart(c, limit) ==
  /\ callers[c].pc = "idle"
  /\ LET key == getCacheKey(<<"active-markets", limit>>)
         got == getCache(cache, key, now)
     IN /\ cache' = got.cache
        /\ callers' = [callers EXCEPT ![c] =
                         IF Truthy(got.value)
                           THEN [pc |-> "returned", key |-> key, result |-> got.value[1]]
                           ELSE [pc |-> "awaitMarkets", key |-> key, result |-> None]]
  /\ UNCHANGED <<now, call>>

\* The /api/markets request of caller c settles.
CallerResponse(c, resp) ==
  /\ callers[c].pc = "awaitMarkets"
  /\ LET r == getMarkets(resp)
     IN IF r.threw
          THEN /\ cache' = cache
               /\ callers' = [callers EXCEPT ![c].pc = "failed"]
          ELSE /\ cache' = setCache(cache, callers[c].key, Some(r.value), now)
               /\ callers' = [callers EXCEPT ![c].pc = "returned",
                                             ![c].result = Some(r.value)]
  /\ UNCHANGED <<now, call>>

\* The caller has taken the outcome of its call.
CallerSettle(c) ==
  /\ callers[c].pc \in {"returned", "failed"}
  /\ callers' = [callers EXCEPT ![c] = IdleCaller]
  /\ UNCHANGED svcVars

\* No component uses a query hook: the query cache is empty.
NoQueries ==
  /\ observers = {} /\ invalidateOpt = FALSE /\ queries = <<>>
  /\ clock = 1 /\ lastRead = NoRead

vars == <<sseVars, svcVars, favVars, hookVars, qVars, concVars>>

\* No favorites hook is mounted.
NoHook == propWallet = None /\ propFilters = None /\ HookIdle

Init == SSEInit /\ SvcInit /\ FavInit /\ NoHook /\ NoQueries /\ NoCallers
\* The hook, beside a service that is not called.
Next ==
  \/ Mount /\ UNCHANGED <<svcVars, favVars, hookVars, qVars, concVars>>
  \/ Render /\ UNCHANGED <<svcVars, favVars, hookVars, qVars, concVars>>
  \/ \E en \in BOOLEAN, c \in Cfgs : ChangeOptions(en, c) /\ UNCHANGED <<svcVars, favVars, hookVars, qVars, concVars>>
  \/ DisconnectCall /\ UNCHANGED <<svcVars, favVars, hookVars, qVars, concVars>>
  \/ ReconnectCall /\ UNCHANGED <<svcVars, favVars, hookVars, qVars, concVars>>
  \/ ClearEventsCall /\ UNCHANGED <<svcVars, favVars, hookVars, qVars, concVars>>
  \/ \E s \in sources, type \in MessageTypes : Message(s, type) /\ UNCHANGED <<svcVars, favVars, hookVars, qVars, concVars>>
  \/ \E s \in sources, fatal \in BOOLEAN : StreamError(s, fatal) /\ UNCHANGED <<svcVars, favVars, hookVars, qVars, concVars>>
  \/ \E t \in timers : TimerFire(t) /\ UNCHANGED <<svcVars, favVars, hookVars, qVars, concVars>>
Spec == Init /\ [][Next]_vars

\* The service on its own, beside a hook that is not mounted.
ServiceInit ==
  SSEInit /\ enabled /\ autoReconnect /\ cfg = "markets" /\ SvcInit /\ FavInit /\ NoHook
    /\ NoQueries /\ NoCallers
ServiceNext ==
  \/ \E l \in Limits : StartActiveMarkets(l) /\ UNCHANGED <<sseVars, favVars, hookVars, qVars, concVars>>
  \/ \E resp \in NetworkResponses({MarketPage}) : MarketsResponse(resp) /\ UNCHANGED <<sseVars, favVars, hookVars, qVars, concVars>>
  \/ \E w \in Wallets : StartDealerNFTs(w) /\ UNCHANGED <<sseVars, favVars, hookVars, qVars, concVars>>
  \/ \E w \in Wallets : StartDealerDashboard(w) /\ UNCHANGED <<sseVars, favVars, hookVars, qVars, concVars>>
  \/ \E resp \in NetworkResponses(NFTLists) : DealersResponse(resp) /\ UNCHANGED <<sseVars, favVars, hookVars, qVars, concVars>>
  \/ \E nft \in call.pending :
       \E resp \in NetworkResponses({MarketsOfNFT[nft]}) :
         DealerMarketsResponse(nft, resp) /\ UNCHANGED <<sseVars, favVars, hookVars, qVars, concVars>>
  \/ \E nfts \in {None} \cup {Some(l) : l \in NFTLists} :
       StartDashboardQuery(nfts) /\ UNCHANGED <<sseVars, favVars, hookVars, qVars, concVars>>
  \/ \E config \in ServiceConfigs : Construct(config) /\ UNCHANGED <<sseVars, favVars, hookVars, qVars, concVars>>
  \/ Settle /\ UNCHANGED <<sseVars, favVars, hookVars, qVars, concVars>>
  \/ ClearCache /\ UNCHANGED <<sseVars, favVars, hookVars, qVars, concVars>>
  \/ Tick /\ UNCHANGED <<sseVars, favVars, hookVars, qVars, concVars>>
ServiceSpec == ServiceInit /\ [][ServiceNext]_vars

\* getUserPredictions on its own.
PredictionsNext ==
  \/ \E w \in Wallets, f \in FilterObjects : StartUserPredictions(w, f) /\ UNCHANGED <<sseVars, favVars, hookVars, qVars, concVars>>
  \/ \E resp \in NetworkResponses({PredictionPage}) : PredictionsResponse(resp) /\ UNCHANGED <<sseVars, favVars, hookVars, qVars, concVars>>
  \/ Settle /\ UNCHANGED <<sseVars, favVars, hookVars, qVars, concVars>>
  \/ ClearCache /\ UNCHANGED <<sseVars, favVars, hookVars, qVars, concVars>>
  \/ Tick /\ UNCHANGED <<sseVars, favVars, hookVars, qVars, concVars>>
PredictionsSpec == ServiceInit /\ [][PredictionsNext]_vars

\* The favorites store on its own, its operations called in any order.
FavoritesInit ==
  /\ SSEInit /\ enabled /\ autoReconnect /\ cfg = "markets"
  /\ cache = <<>> /\ call = Idle /\ now = 1
  /\ FavInit /\ NoHook /\ NoQueries /\ NoCallers
FavoritesNext ==
  \/ \E a \in Addresses, l \in ServerLists :
       SetFavorites(a, l) /\ UNCHANGED <<sseVars, svcVars, hookVars, qVars, concVars>>
  \/ \E a \in Addresses, i \in Items :
       AddFavoriteOptimistic(a, i) /\ UNCHANGED <<sseVars, svcVars, hookVars, qVars, concVars>>
  \/ \E a \in Addresses, f \in KnownFavorites :
       UpdateFavoriteFromServer(a, f) /\ UNCHANGED <<sseVars, svcVars, hookVars, qVars, concVars>>
  \/ \E a \in Addresses, f \in KnownFavorites :
       RemoveFavoriteOptimistic(a, f.id) /\ UNCHANGED <<sseVars, svcVars, hookVars, qVars, concVars>>
  \/ \E a \in Addresses, i \in Items : RollbackAdd(a, i) /\ UNCHANGED <<sseVars, svcVars, hookVars, qVars, concVars>>
  \/ \E a \in Addresses, f \in KnownFavorites :
       RollbackRemove(a, f) /\ UNCHANGED <<sseVars, svcVars, hookVars, qVars, concVars>>
  \/ \E a \in Addresses : ClearFavorites(a) /\ UNCHANGED <<sseVars, svcVars, hookVars, qVars, concVars>>
  \/ ClearAll /\ UNCHANGED <<sseVars, svcVars, hookVars, qVars, concVars>>
  \/ Tick /\ UNCHANGED <<sseVars, favVars, hookVars, qVars, concVars>>
FavoritesSpec == FavoritesInit /\ [][FavoritesNext]_vars

\* The favorites store used for two wallets, its operations called in any
\* order at one clock value.
WalletAddresses == {<<"0", "x", "A", "b">>, <<"0", "x", "c", "d">>}
WalletsNext ==
  \/ \E a \in WalletAddresses, l \in ServerLists :
       SetFavorites(a, l) /\ UNCHANGED <<sseVars, svcVars, hookVars, qVars, concVars>>
  \/ \E a \in WalletAddresses, i \in Items :
       AddFavoriteOptimistic(a, i) /\ UNCHANGED <<sseVars, svcVars, hookVars, qVars, concVars>>
  \/ \E a \in WalletAddresses, f \in KnownFavorites :
       UpdateFavoriteFromServer(a, f) /\ UNCHANGED <<sseVars, svcVars, hookVars, qVars, concVars>>
  \/ \E a \in WalletAddresses, f \in KnownFavorites :
       RemoveFavoriteOptimistic(a, f.id) /\ UNCHANGED <<sseVars, svcVars, hookVars, qVars, concVars>>
  \/ \E a \in WalletAddresses, i \in Items :
       RollbackAdd(a, i) /\ UNCHANGED <<sseVars, svcVars, hookVars, qVars, concVars>>
  \/ \E a \in WalletAddresses, f \in KnownFavorites :
       RollbackRemove(a, f) /\ UNCHANGED <<sseVars, svcVars, hookVars, qVars, concVars>>
  \/ \E a \in WalletAddresses : ClearFavorites(a) /\ UNCHANGED <<sseVars, svcVars, hookVars, qVars, concVars>>
  \/ ClearAll /\ UNCHANGED <<sseVars, svcVars, hookVars, qVars, concVars>>
WalletsSpec == FavoritesInit /\ [][WalletsNext]_vars

\* The favorites hook of one component, the store driven by it alone.
HookSpecInit ==
  /\ SSEInit /\ enabled /\ autoReconnect /\ cfg = "markets"
  /\ cache = <<>> /\ call = Idle /\ now = 1
  /\ FavInit /\ HookInit /\ NoQueries /\ NoCallers
HookNext ==
  \/ QueryFetch /\ UNCHANGED <<sseVars, svcVars, qVars, concVars>>
  \/ \E resp \in FavoritesResponses : QueryResolve(resp) /\ UNCHANGED <<sseVars, svcVars, qVars, concVars>>
  \/ SyncEffect /\ UNCHANGED <<sseVars, svcVars, qVars, concVars>>
  \/ Refresh /\ UNCHANGED <<sseVars, svcVars, qVars, concVars>>
  \/ \E i \in Items : AddMutate(i) /\ UNCHANGED <<sseVars, svcVars, qVars, concVars>>
  \/ \E i \in Items :
       \E resp \in AddResponses(i) :
         AddSettle(i, resp) /\ UNCHANGED <<sseVars, svcVars, qVars, concVars>>
  \/ Tick /\ UNCHANGED <<sseVars, favVars, hookVars, qVars, concVars>>
HookSpec == HookSpecInit /\ [][HookNext]_vars

\* The query hooks of one component, beside an event stream that is mounted
\* with the component; the service and the favorites are not used.
QuerySpecInit ==
  /\ SSEInit /\ enabled /\ autoReconnect /\ cfg = "markets"
  /\ SvcInit /\ FavInit /\ NoHook
  /\ QueryInit(SingleComponents) /\ NoCallers
QueryNext ==
  \/ Mount /\ UNCHANGED <<svcVars, favVars, hookVars, qVars, concVars>>
  \/ ClearEventsCall /\ UNCHANGED <<svcVars, favVars, hookVars, qVars, concVars>>
  \/ \E o \in observers : Read(o) /\ UNCHANGED <<sseVars, svcVars, favVars, hookVars, concVars>>
  \/ \E o \in observers :
       \E outcome \in Outcomes(o) :
         Resolve(o, outcome) /\ UNCHANGED <<sseVars, svcVars, favVars, hookVars, concVars>>
  \/ \E s \in sources, eventType \in SSEEventTypes, data \in EventData :
       DataUpdate(s, eventType, data) /\ UNCHANGED <<svcVars, favVars, hookVars, concVars>>
  \/ QueryTick /\ UNCHANGED <<sseVars, svcVars, favVars, hookVars, concVars>>
QuerySpec == QuerySpecInit /\ [][QueryNext]_vars

\* A composite hook, without events.
CompositeSpecInit ==
  /\ SSEInit /\ enabled /\ autoReconnect /\ cfg = "markets"
  /\ SvcInit /\ FavInit /\ NoHook
  /\ QueryInit(CompositeComponents) /\ NoCallers
CompositeNext ==
  \/ Mount /\ UNCHANGED <<svcVars, favVars, hookVars, qVars, concVars>>
  \/ \E o \in observers : Read(o) /\ UNCHANGED <<sseVars, svcVars, favVars, hookVars, concVars>>
  \/ \E o \in observers :
       \E outcome \in Outcomes(o) :
         Resolve(o, outcome) /\ UNCHANGED <<sseVars, svcVars, favVars, hookVars, concVars>>
  \/ QueryTick /\ UNCHANGED <<sseVars, svcVars, favVars, hookVars, concVars>>
CompositeSpec == CompositeSpecInit /\ [][CompositeNext]_vars

\* The service called by several callers, the hooks idle.
ConcurrentInit ==
  /\ SSEInit /\ enabled /\ autoReconnect /\ cfg = "markets"
  /\ SvcInit /\ FavInit /\ NoHook /\ NoQueries /\ NoCallers
ConcurrentNext ==
  \/ \E c \in Callers, l \in Limits :
       CallerStart(c, l) /\ UNCHANGED <<sseVars, favVars, hookVars, qVars>>
  \/ \E c \in Callers, resp \in NetworkResponses({MarketPage}) :
       CallerResponse(c, resp) /\ UNCHANGED <<sseVars, favVars, hookVars, qVars>>
  \/ \E c \in Callers : CallerSettle(c) /\ UNCHANGED <<sseVars, favVars, hookVars, qVars>>
  \/ ClearCache /\ UNCHANGED <<sseVars, favVars, hookVars, qVars, concVars>>
  \/ Tick /\ UNCHANGED <<sseVars, favVars, hookVars, qVars, concVars>>
ConcurrentSpec == ConcurrentInit /\ [][ConcurrentNext]_vars

\* Timers that are pending fire.
FairSpec ==
  Spec /\ \A i \in 1..MaxTimers :
           WF_vars(\E t \in timers : t.id = i /\ TimerFire(t) /\ UNCHANGED <<svcVars, favVars, hookVars, qVars, concVars>>)

TypeOK ==
  /\ connectionState \in ConnectionStates
  /\ rState \in ConnectionStates
  /\ reconnectAttemptsRef \in 0..MaxReconnectAttempts
  /\ Cardinality(sources) <= 1
  /\ SourceIds(H) \subseteq {eventSourceRef}

\* ------------------------------------------------------- event-stream claims
\* The step is a stream error / the receipt of a 'connected' message (the
\* first conjunct is implied by the second and only spares its evaluation).
ErrorStep == error' /\ \E s \in sources, fatal \in BOOLEAN : StreamError(s, fatal)
AckStep == connectionState' = "connected" /\ \E s \in sources : Message(s, "connected")

\* C1: with auto-reconnect on, after maxReconnectAttempts stream errors with no
\* 'connected' message in between, the next error leaves the state
\* disconnected and schedules no reconnect, and from then on the state does not
\* leave disconnected on its own (only a step of the caller changes it).
C1_GivesUpAndStays ==
  [][ /\ (autoReconnect /\ errorRun = MaxReconnectAttempts /\ ErrorStep)
           => (connectionState' = "disconnected" /\ timers' = timers)
      /\ (autoReconnect /\ errorRun = MaxReconnectAttempts + 1
            /\ connectionState = "disconnected" /\ AutomaticStep)
           => connectionState' = "disconnected" ]_vars

\* C2: a call of disconnect() leaves the state disconnected, no source open,
\* both ids null and no reconnect timer pending; afterwards the state stays
\* disconnected until the caller asks for a connection.
C2_DisconnectCancelsAll ==
  [][ /\ DisconnectCall
           => /\ connectionState' = "disconnected"
              /\ sources' = {}
              /\ clientId' = NoId /\ subscriptionId' = NoId
              /\ timers' = {}
      /\ (mounted /\ connectionState = "disconnected" /\ eventSourceRef = NULL
            /\ AutomaticStep)
           => connectionState' = "disconnected" ]_vars

\* C3: the state becomes connected only by a 'connected' message and only
\* from connecting.
C3_ConnectedOnlyFromConnecting ==
  [][ (connectionState' = "connected" /\ connectionState # "connected")
        => (AckStep /\ connectionState = "connecting") ]_vars

\* C4: a 'connected' message sets the attempt counter to 0, and of the stream
\* errors that follow it (errorRun counts them) each of the first
\* maxReconnectAttempts schedules one reconnect and the next one gives up,
\* whatever errors came before the message.
C4_AckGivesFreshAttempts ==
  [][ /\ AckStep => reconnectAttemptsRef' = 0
      /\ (autoReconnect /\ ErrorStep)
           => IF errorRun < MaxReconnectAttempts
              THEN /\ Cardinality(timers') = Cardinality(timers) + 1
                   /\ connectionState' = "error"
              ELSE /\ timers' = timers
                   /\ connectionState' = "disconnected" ]_vars

C4_Witness ==
  /\ autoReconnect
  /\ clientId # NoId
  /\ errorRun = MaxReconnectAttempts + 1
  /\ connectionState = "disconnected"
  /\ reconnectAttemptsRef = MaxReconnectAttempts

\* C5: a stream error with auto-reconnect on and the counter below the maximum
\* sets the state to error, adds one to the counter and schedules one
\* reconnect timer; a pending timer leads to state connecting unless a
\* disconnect() comes first (which empties reconnectTimeoutRef).
C5_ErrorSchedulesReconnect ==
  /\ [][ (autoReconnect /\ reconnectAttemptsRef < MaxReconnectAttempts /\ ErrorStep)
           => /\ connectionState' = "error"
              /\ reconnectAttemptsRef' = reconnectAttemptsRef + 1
              /\ \E t \in timers' \ timers :
                   /\ timers' = timers \cup {t}
                   /\ reconnectTimeoutRef' = t.id ]_vars
  /\ \A i \in 1..MaxTimers :
       (i \in TimerIds(H)) ~> (connectionState = "connecting" \/ reconnectTimeoutRef = NULL)

C5_Witness ==
  /\ connectionState = "error"
  /\ reconnectAttemptsRef > 0
  /\ reconnectTimeoutRef \in TimerIds(H)

\* C6: a change of channel or filters while connected closes the current
\* source and opens one for the new channel and filters, and after such a
\* change no data_update of a source of the old options enters the event log.
C6_FilterChangeReconnects ==
  [][ /\ (connectionState = "connected" /\ enabled
            /\ \E c \in Cfgs \ {cfg} : ChangeOptions(TRUE, c))
           => \E s \in sources' :
                /\ sources' = {s}
                /\ s.id = eventSourceRef'
                /\ s.cfg = cfg'
      /\ (filterChanged /\ Len(events') > Len(events))
           => events'[Len(events')].cfg = cfg ]_vars

\* C7: reconnect() sets the attempt counter to 0 and, when the subscription is
\* enabled, leaves the state connecting with exactly one source, opened
\* for the current options, and no reconnect timer pending.
C7_ReconnectFromAnyState ==
  [][ ReconnectCall
        => /\ reconnectAttemptsRef' = 0
           /\ enabled
                => /\ connectionState' = "connecting"
                   /\ \E s \in sources' :
                        /\ sources' = {s}
                        /\ s.id = eventSourceRef'
                        /\ s.cfg = cfg
                   /\ timers' = {} ]_vars

\* ------------------------------------------------------------ service claims
\* The getCache calls made by the step (an operation does its lookups when it
\* starts), and the keys the step stored with setCache.
NewLookups == IF call.pc = "idle" THEN Range(call'.lookups) ELSE {}
NewWrites == call'.wrote \ call.wrote
Expired(l) == l.entry = None \/ l.at >= l.entry[1].setAt + CACHE_TTL

\* C8: a value v stored under key k at time setAt is returned by a lookup of
\* k at any time t < setAt + ttl; a lookup at t >= setAt + ttl returns absent
\* and removes the entry; an entry is removed or replaced only by such a
\* lookup, by being stored again or by clearCache(), never by the passing of
\* time alone.
C8_TTLCache ==
  [][ /\ \A l \in NewLookups :
           IF Expired(l)
             THEN l.value = None /\ (l.key \in DOMAIN cache' => l.key \in NewWrites)
             ELSE l.value = Some(l.entry[1].data)
                    /\ (l.key \in NewWrites \/ (l.key \in DOMAIN cache' /\ cache'[l.key] = cache[l.key]))
      /\ \A k \in DOMAIN cache :
           (k \notin DOMAIN cache' \/ cache'[k] # cache[k]) =>
             \/ cache' = <<>> /\ call' = call /\ now' = now
             \/ k \in NewWrites
             \/ \E l \in NewLookups : l.key = k /\ Expired(l)
    ]_vars

\* getDealerDashboard found its own entry expired and removed it, and was
\* served the dealer's NFTs from an entry stored earlier that is still live.
C8_Witness ==
  /\ call.op = "getDealerDashboard"
  /\ Len(call.lookups) = 2
  /\ call.lookups[1].entry # None /\ Expired(call.lookups[1])
  /\ call.lookups[1].value = None
  /\ ~Expired(call.lookups[2])
  /\ call.lookups[2].entry[1].data # None
  /\ call.lookups[2].at > call.lookups[2].entry[1].setAt
  /\ call.lookups[2].value = Some(call.lookups[2].entry[1].data)

\* C9: when an underlying endpoint call of a service operation fails, the
\* operation fails and has stored nothing in the cache; in particular a
\* getDealerDashboard whose getDealerMarkets call fails leaves no new entry.
Failures(payloads) == {r \in NetworkResponses(payloads) : r.failed \/ ~r.ok \/ r.body = None}

EndpointFailureStep ==
  \/ \E resp \in Failures({MarketPage}) : getMarkets(resp).threw /\ MarketsResponse(resp)
  \/ \E resp \in Failures(NFTLists) : getDealers(resp).threw /\ DealersResponse(resp)
  \/ \E nft \in call.pending :
       \E resp \in Failures({MarketsOfNFT[nft]}) :
         getDealerMarkets(resp).threw /\ DealerMarketsResponse(nft, resp)

C9_FailureLeavesCache ==
  [][ EndpointFailureStep => call'.pc = "failed" /\ call'.wrote = {} ]_vars

\* C10: a reply envelope with success = false, whatever its HTTP status, is
\* raised as an error by the endpoint client and the service: the operation
\* fails, nothing is returned and nothing is stored in the cache.
FailureEnvelopes(payloads) == {r \in NetworkResponses(payloads) : ~r.failed /\ r.body = Some(ErrEnvelope)}

FailureEnvelopeStep ==
  \/ \E resp \in FailureEnvelopes({MarketPage}) : MarketsResponse(resp)
  \/ \E resp \in FailureEnvelopes(NFTLists) : DealersResponse(resp)
  \/ \E nft \in call.pending :
       \E resp \in FailureEnvelopes({MarketsOfNFT[nft]}) : DealerMarketsResponse(nft, resp)

C10_FailureEnvelopeRaised ==
  [][ FailureEnvelopeStep => call'.pc = "failed" /\ cache' = cache ]_vars

\* C11: two calls of the same operation whose argument objects are deeply
\* equal, whatever the insertion order of their properties, map to the same
\* cache key: the second call within the TTL is served from the cache without
\* an endpoint call.
C11_DeepEqualArgsShareKey ==
  [][ \A w \in Wallets, f \in FilterObjects :
        (/\ StartUserPredictions(w, f)
         /\ \E g \in FilterObjects :
              /\ DeepEqual(f, g)
              /\ userPredictionsKey(w, g) \in DOMAIN cache
              /\ now < cache[userPredictionsKey(w, g)].setAt + CACHE_TTL)
        => call'.pc = "returned" /\ cache' = cache
    ]_vars

\* C12: the dealer dashboard (getDealerDashboard and the markets query of
\* useDealerDashboard) returns each market id at most once; the ids returned
\* are the union of the ids that getDealerMarkets returned for the NFTs of the
\* wallet; for an id returned for several NFTs the record kept is the one of
\* the NFT that is last in the NFT list, in whatever order the replies came.
DashboardMarkets ==
  IF call.op = "useDealerDashboard" THEN call.result[1] ELSE call.result[1].markets

IdsOf(result) == IF result.data = None THEN {} ELSE {m.id : m \in Range(result.data[1])}

\* The operation has merged the replies of all its getDealerMarkets calls.
DashboardMerged ==
  /\ call.pc = "returned"
  /\ call.op \in {"getDealerDashboard", "useDealerDashboard"}
  /\ call.nfts # None
  /\ Len(call.nfts[1]) > 0

C12_DashboardMerge ==
  DashboardMerged =>
    LET nfts == call.nfts[1]
        markets == DashboardMarkets
    IN /\ \A i, j \in 1..Len(markets) : markets[i].id = markets[j].id => i = j
       /\ {m.id : m \in Range(markets)} = UNION {IdsOf(call.got[n]) : n \in Range(nfts)}
       /\ \A m \in Range(markets) :
            \E i \in 1..Len(nfts) :
              /\ call.got[nfts[i]].data # None
              /\ m \in Range(call.got[nfts[i]].data[1])
              /\ \A j \in (i + 1)..Len(nfts) : m.id \notin IdsOf(call.got[nfts[j]])

\* Both NFTs returned the market m2, and the copy of the last NFT was kept.
C12_Witness ==
  /\ DashboardMerged
  /\ call.op = "getDealerDashboard"
  /\ \A n \in Range(call.nfts[1]) : "m2" \in IdsOf(call.got[n])
  /\ Market("m2", "B") \in Range(DashboardMarkets)
  /\ Len(DashboardMarkets) = 3

\* C13: the dealer-dashboard cache entry is independent of the entries of its
\* dependencies: while it is unexpired getDealerDashboard returns it without
\* any endpoint call, also when the dealer-NFTs entry has expired or has been
\* refetched with other content; a refresh of the dealer NFTs never evicts or
\* changes the dashboard entry.
dashboardKey(w) == getCacheKey(<<"dealer-dashboard", w>>)
dealerNFTsKey(w) == getCacheKey(<<"dealer-nfts", w>>)
Live(k) == k \in DOMAIN cache /\ now < cache[k].setAt + CACHE_TTL

DealerNFTsStep ==
  /\ call'.op = "getDealerNFTs"
  /\ \/ \E w \in Wallets : StartDealerNFTs(w)
     \/ \E resp \in NetworkResponses(NFTLists) : DealersResponse(resp)

C13_DashboardEntryIndependent ==
  [][ /\ \A w \in Wallets :
           (call'.op = "getDealerDashboard" /\ StartDealerDashboard(w) /\ Live(dashboardKey(w))) =>
             /\ call'.pc = "returned"
             /\ call'.result = cache[dashboardKey(w)].data
             /\ cache' = cache
             /\ Len(call'.lookups) = 1
      /\ DealerNFTsStep =>
           \A w \in Wallets :
             dashboardKey(w) \in DOMAIN cache =>
               /\ dashboardKey(w) \in DOMAIN cache'
               /\ cache'[dashboardKey(w)] = cache[dashboardKey(w)]
    ]_vars

\* The dashboard was served from its entry although the dealer-NFTs entry
\* had been refetched later with other content.
C13_Witness ==
  /\ call.op = "getDealerDashboard" /\ call.pc = "returned" /\ call.wrote = {}
  /\ dealerNFTsKey(call.wallet) \in DOMAIN cache
  /\ cache[dealerNFTsKey(call.wallet)].setAt > cache[call.key].setAt
  /\ cache[dealerNFTsKey(call.wallet)].data # Some(call.result[1].nfts)

\* ----------------------------------------------------------- favorites claims
\* The list of the wallet of the last operation, and the records of a list
\* that are for an item.
LastList == getFavorites(walletFavorites, lastOp.wallet)
For(favs, item) == {i \in 1..Len(favs) : favs[i].itemId = item}

\* C14: for a wallet whose list holds no record for item i, after
\* addFavoriteOptimistic the list holds exactly one record for i and its id
\* is negative; after updateFavoriteFromServer with the confirmed record for
\* i (id c >= 0) the list has the same length and order, holds exactly one
\* record for i, with id c at the placeholder's position, and no negative-id
\* record for i.
C14_OptimisticAddConfirm ==
  /\ (lastOp.name = "addFavoriteOptimistic" /\ For(lastOp.before, lastOp.item) = {}) =>
       /\ Len(LastList) = Len(lastOp.before) + 1
       /\ SubSeq(LastList, 1, Len(lastOp.before)) = lastOp.before
       /\ For(LastList, lastOp.item) = {Len(LastList)}
       /\ LastList[Len(LastList)].id < 0
  /\ (/\ lastOp.name = "updateFavoriteFromServer"
      /\ lastOp.id >= 0
      /\ \E p \in 1..Len(lastOp.before) :
           For(lastOp.before, lastOp.item) = {p} /\ lastOp.before[p].id < 0) =>
       /\ Len(LastList) = Len(lastOp.before)
       /\ \A p \in 1..Len(LastList) :
            IF p \in For(lastOp.before, lastOp.item)
              THEN LastList[p] = Favorite(lastOp.id, lastOp.item)
              ELSE LastList[p] = lastOp.before[p]
       /\ \A p \in For(LastList, lastOp.item) : LastList[p].id >= 0

\* A placeholder in the middle of the list was confirmed in place.
C14_Witness ==
  /\ lastOp.name = "updateFavoriteFromServer"
  /\ Len(lastOp.before) = 2
  /\ lastOp.before[1].id < 0 /\ lastOp.before[1].itemId = lastOp.item
  /\ lastOp.before[2].itemId # lastOp.item
  /\ LastList = <<Favorite(ServerIdOf[lastOp.item], lastOp.item), lastOp.before[2]>>

\* C16: removeFavoriteOptimistic(w, id) followed by rollbackRemove(w, snapshot
\* of the removed record) yields a list whose set of records is the set
\* before the removal, with the restored record at the end of the list.
C16_RemoveRollback ==
  [][ \A a \in Addresses, f \in KnownFavorites :
        (/\ lastOp.name = "removeFavoriteOptimistic"
         /\ lastOp.wallet = toLowerCase(a)
         /\ lastOp.id = f.id
         /\ f \in Range(lastOp.before)
         /\ RollbackRemove(a, f))
        => LET after == getFavorites(walletFavorites', a)
           IN /\ Range(after) = Range(lastOp.before)
              /\ after[Len(after)] = f
    ]_vars

\* C17: after addFavoriteOptimistic(w, request for item i) followed by
\* rollbackAdd(w, i) the list of w holds no record with itemId i, whatever
\* the list held before.
C17_AddRollback ==
  [][ \A a \in Addresses, i \in Items :
        (/\ lastOp.name = "addFavoriteOptimistic"
         /\ lastOp.wallet = toLowerCase(a)
         /\ lastOp.item = i
         /\ RollbackAdd(a, i))
        => For(getFavorites(walletFavorites', a), i) = {}
    ]_vars

\* An add was rolled back in a list that held other records.
C17_Witness ==
  /\ lastOp.name = "rollbackAdd"
  /\ Len(lastOp.before) >= 2
  /\ lastOp.before[Len(lastOp.before)].id < 0
  /\ lastOp.before[Len(lastOp.before)].itemId = lastOp.item
  /\ For(LastList, lastOp.item) = {}
  /\ Len(LastList) = Len(lastOp.before) - 1

\* C19: every store operation addresses a wallet by its lower-cased address:
\* every key of the per-wallet map is lower-case, and for two addresses that
\* differ only in letter case getFavorites, isFavorite, findFavorite and
\* needsRefresh return the same, whichever of the two the operations were
\* issued through.
MaxAges == 0..DEFAULT_MAX_AGE

UpperCase == {"A", "B", "X"}
IsLowerCase(k) == \A i \in 1..Len(k) : k[i] \notin UpperCase
SameWallet(a, b) == Len(a) = Len(b) /\ \A i \in 1..Len(a) : LowerChar(a[i]) = LowerChar(b[i])

C19_WalletCaseFolding ==
  /\ \A k \in DOMAIN walletFavorites : IsLowerCase(k)
  /\ \A a, b \in Addresses :
       SameWallet(a, b) =>
         /\ getFavorites(walletFavorites, a) = getFavorites(walletFavorites, b)
         /\ \A i \in Items :
              /\ isFavorite(walletFavorites, a, i) = isFavorite(walletFavorites, b, i)
              /\ findFavorite(walletFavorites, a, i) = findFavorite(walletFavorites, b, i)
         /\ \A m \in MaxAges :
              needsRefresh(walletFavorites, a, m, now) = needsRefresh(walletFavorites, b, m, now)
  /\ lastOp.name = "addFavoriteOptimistic" =>
       \A a \in Addresses :
         SameWallet(a, lastOp.wallet) => isFavorite(walletFavorites, a, lastOp.item)
  /\ lastOp.name = "setFavorites" =>
       \A a \in Addresses :
         SameWallet(a, lastOp.wallet) => ~needsRefresh(walletFavorites, a, DEFAULT_MAX_AGE, now)

\* An item added for the wallet is seen through the mixed-case address.
C19_Witness ==
  /\ lastOp.name = "addFavoriteOptimistic"
  /\ \E a \in Addresses :
       /\ ~IsLowerCase(a)
       /\ isFavorite(walletFavorites, a, lastOp.item)
       /\ findFavorite(walletFavorites, a, lastOp.item) # None

\* C20: needsRefresh(w, maxAge) is true exactly when wallet w has never been
\* fetched (no entry, or lastFetched null) or now - lastFetched > maxAge; it
\* is false when now - lastFetched = maxAge; an optimistic add on a
\* never-fetched wallet does not make it false.
C20_NeedsRefresh ==
  \A a \in Addresses, m \in MaxAges :
    needsRefresh(walletFavorites, a, m, now)
      <=> (\/ toLowerCase(a) \notin DOMAIN fetchedAt
           \/ now - fetchedAt[toLowerCase(a)] > m)

\* A wallet fetched exactly maxAge ago does not need a refresh, and a wallet
\* that only had an optimistic add does.
C20_Witness ==
  \E a \in Addresses :
    /\ toLowerCase(a) \in DOMAIN fetchedAt
    /\ now - fetchedAt[toLowerCase(a)] = DEFAULT_MAX_AGE
    /\ ~needsRefresh(walletFavorites, a, DEFAULT_MAX_AGE, now)
    /\ Len(getFavorites(walletFavorites, a)) > 0

\* ------------------------------------------------------ favorites-hook claims
\* The wallet's list as the hook sees it, now and after the step.
HookList == getFavorites(walletFavorites, propWallet[1])
HookListNext == getFavorites(walletFavorites', propWallet[1])

IsPlaceholder(f, item) == f.id < 0 /\ f.itemId = item

\* The add mutation for the item is issued / settles in the step.
IssueStep(item) == addMutations[item] # "pending" /\ addMutations'[item] = "pending"
SettleStep(item) == addMutations[item] = "pending" /\ addMutations'[item] # "pending"

\* C15: with a wallet connected, every add mutation of the favorites hook
\* puts its negative-id placeholder into the wallet's list in the step that
\* issues it; the step that settles it with success leaves the
\* server-confirmed record in the list; and in every state in which the add
\* mutation for an item has settled, no negative-id record of that item is
\* in the list.
C15_AddMutationLifecycle ==
  /\ [][\A item \in Items :
          IssueStep(item) /\ propWallet # None =>
            \E n \in DOMAIN HookListNext : IsPlaceholder(HookListNext[n], item)]_vars
  /\ [][\A item \in Items :
          SettleStep(item) /\ propWallet # None /\ addMutations'[item] = "success" =>
            Favorite(ServerIdOf[item], item) \in Range(HookListNext)]_vars
  /\ [](\A item \in Items :
          propWallet # None /\ addMutations[item] \in {"success", "error"} =>
            \A n \in DOMAIN HookList : ~IsPlaceholder(HookList[n], item))

\* A fetch of the favorites query ends with success in the step; the sync
\* effect runs in the step.
FetchSuccessStep ==
  query.fetching /\ ~query'.fetching /\ query'.status = "success" /\ query'.updatedAt = now
    /\ syncDue'
SyncEffectStep == syncDue /\ ~syncDue'

MessagesOfType(s, type) ==
  {[type |-> type, clientId |-> id, subscriptionId |-> id, event |-> [cfg |-> s.cfg]] :
     id \in ServerIds}

DataUpdateStep == \E s \in sources : Message(s, "data_update")

C24_DroppedMessages ==
  \A s \in sources : \A type \in {"heartbeat", "malformed"} :
    \A msg \in MessagesOfType(s, type) :
      /\ handleMessage(H, msg) = H
      /\ s \in handleMessage(H, msg).sources

\* A stream is open in state connected with an event in the log and an
\* earlier error still set.
C24_Witness ==
  /\ sources # {}
  /\ connectionState = "connected"
  /\ events # <<>>
  /\ error

\* ---------------------------------------------------------------------------
\* C28: after refresh() with a wallet connected, the wallet's favorites are
\* refetched from the server whatever the content and age of the local store:
\* a query that refresh() has invalidated is being fetched or its fetch can
\* start.  invalidateQueries refetches only the queries that are not disabled,
\* and `enabled` is false while the store is non-empty and no older than
\* DEFAULT_MAX_AGE.
C28_RefreshRefetches ==
  propWallet # None /\ query.invalidated => query.fetching \/ queryEnabled

\* ---------------------------------------------------------------------------
\* The words `part` appear in `message`, in a row.
Contains(message, part) ==
  \E i \in 0..(Len(message) - Len(part)) : SubSeq(message, i + 1, i + Len(part)) = part

Constructed == call.op = "construct" /\ call.result # None

\* C29: constructing an IndexerService with a config whose networkClient is
\* undefined fails with an error whose message contains 'networkClient is
\* required', and no service instance is created.
C29_NetworkClientRequired ==
  Constructed /\ call.result[1].config.networkClient = None =>
    /\ call.result[1].thrown # None
    /\ Contains(call.result[1].thrown[1], <<"networkClient", "is", "required">>)
    /\ call.result[1].instance = None

\* C30, as stated: constructing an IndexerService with an empty indexerUrl
\* fails with an error whose message contains 'indexerUrl is required',
\* before any client or cache is created.
C30_IndexerUrlRequired_Stated ==
  Constructed /\ call.result[1].config.indexerUrl = "" =>
    /\ call.result[1].thrown # None
    /\ Contains(call.result[1].thrown[1], <<"indexerUrl", "is", "required">>)
    /\ call.result[1].created = <<>>

\* C30, amended: constructing an IndexerService with an empty indexerUrl
\* fails with an error whose message contains 'indexerUrl is required',
\* before any client is created and with no service instance; the empty cache
\* map of the object under construction exists by then.
C30_IndexerUrlRequired ==
  Constructed /\ call.result[1].config.indexerUrl = "" =>
    /\ call.result[1].thrown # None
    /\ Contains(call.result[1].thrown[1], <<"indexerUrl", "is", "required">>)
    /\ call.result[1].instance = None
    /\ call.pc = "failed"
    /\ call.result[1].created = <<"cache">>

\* An empty indexerUrl was given, with a network client, and the construction
\* has failed.
C30_Witness ==
  /\ Constructed /\ call.pc = "failed"
  /\ call.result[1].config.indexerUrl = ""
  /\ call.result[1].config.networkClient # None
  /\ cache # <<>>

\* ------------------------------------------------------- query-layer claims
\* The families a kind of event is said to mark stale, and the keys.
SaidFamilies(eventType) ==
  CASE eventType \in MarketEvents -> {"markets", "market"}
    [] eventType \in PredictionEvents -> {"predictions", "market-predictions"}
    [] eventType \in LicenseEvents -> {"dealers"}
    [] eventType \in OracleEvents -> {"oracle", "oracle-requests", "oracle-request"}
    [] OTHER -> {"withdrawals"}

SaidStale(eventType, data, key) ==
  CASE eventType \in MarketEvents ->
         \/ key[2] = "markets"
         \/ key[2] = "market" /\ data.marketId # None /\ key[3] = data.marketId[1]
    [] eventType \in PredictionEvents ->
         \/ key[2] = "predictions"
         \/ key[2] = "market-predictions" /\ data.marketId # None /\ key[3] = data.marketId[1]
    [] OTHER -> FALSE

\* The step left the query marked stale: invalidated, or refetched at once.
MarkedStale(key) ==
  \/ queries'[key].isInvalidated
  \/ queries'[key].status = "success" /\ queries'[key].dataUpdatedAt = clock

\* C21: with invalidation enabled, a data_update marks stale exactly the keys
\* mapped to its event type and none of another resource family: a prediction
\* event carrying marketId m marks the predictions list keys and the
\* market-predictions key of m; a market event marks the markets list keys
\* and, only if the payload carries a market id, that market's key; every
\* other query is left as it was.
C21_InvalidationMapping ==
  [][invalidateOpt /\ DataUpdateStep =>
       \A eventType \in SSEEventTypes, data \in EventData :
         queries' = invalidate(queries, observers, invalidateQueryCaches(eventType, data), clock) =>
           \A key \in DOMAIN queries :
             /\ queries'[key] # queries[key] => key[2] \in SaidFamilies(eventType)
             /\ eventType \in MarketEvents \cup PredictionEvents =>
                  IF SaidStale(eventType, data, key)
                    THEN MarkedStale(key)
                    ELSE queries'[key] = queries[key]]_vars

\* A market's predictions were fetched and an event has marked them stale:
\* they are being fetched again.
C21_Witness ==
  /\ invalidateOpt /\ events # <<>>
  /\ \E key \in DOMAIN queries :
       /\ key[2] = "market-predictions" /\ key[3] \in Ids
       /\ queries[key].isInvalidated /\ queries[key].data # None
       /\ queries[key].fetchStatus = "fetching"

\* C22: with invalidation enabled, an oracle event (OracleRegistered or
\* OracleDataUpdated) marks stale the cached oracle queries, the list query of
\* useOracleRequests and the single-request query of useOracleRequest, so that
\* their next read refetches.
C22_OracleInvalidation ==
  [][invalidateOpt /\ DataUpdateStep =>
       \A eventType \in OracleEvents, data \in EventData :
         queries' = invalidate(queries, observers, invalidateQueryCaches(eventType, data), clock) =>
           \A key \in DOMAIN queries :
             key[2] \in {"oracle-requests", "oracle-request"} /\ queries[key].data # None =>
               MarkedStale(key)]_vars

\* C25: for every parameterised query hook, while its required identifier is
\* undefined no Endpoint Client call is made for it and the query reports an
\* inactive state that is neither error nor loaded.
C25_UndefinedIdInactive ==
  \A o \in observers :
    o.hook.guard # "none" /\ o.arg = Undefined =>
      /\ queries[queryKey(o)].fetchStatus = "idle"
      /\ ~isError(queries[queryKey(o)])
      /\ ~isSuccess(queries[queryKey(o)])

\* One constituent is in error and the others are loaded.
OneInError ==
  \E e \in observers :
    /\ isError(queries[queryKey(e)])
    /\ \A o \in observers \ {e} : isSuccess(queries[queryKey(o)])

\* C26: for the composite queries, isLoading is the OR of the constituents'
\* loading flags and isError the OR of their error flags, and each constituent
\* keeps its own error: with one constituent in error and the others loaded,
\* the composite reports isError = true and isLoading = false, and a
\* constituent that fails changes no other constituent.
C26_CompositeFlags ==
  /\ [](/\ compositeIsLoading <=>
             \E o \in observers : queries[queryKey(o)].status = "pending"
                                    /\ queries[queryKey(o)].fetchStatus = "fetching"
        /\ compositeIsError <=> \E o \in observers : queries[queryKey(o)].status = "error"
        /\ OneInError => compositeIsError /\ ~compositeIsLoading)
  /\ [][\A o \in observers :
          isError(queries'[queryKey(o)]) /\ ~isError(queries[queryKey(o)]) =>
            \A p \in observers \ {o} : queries'[queryKey(p)] = queries[queryKey(p)]]_vars

\* Market details with the history in error, the market and its predictions
\* loaded.
C26_Witness ==
  /\ observers = useMarketDetails("1-market-9")
  /\ OneInError
  /\ isError(queries[<<"heavymath", "market-history", "1-market-9">>])

\* Seconds since the query's data was fetched.
AgeSeconds(q) == (clock - q.dataUpdatedAt) * 60

\* The staleness windows by volatility class, in seconds, as stated: the
\* shortest and the longest window of the family's class.
SaidWindow(family) ==
  CASE family \in {"predictions", "oracle-requests"} -> [lo |-> 60, hi |-> 60]
    [] family \in {"markets", "dealers", "withdrawals"} -> [lo |-> 120, hi |-> 120]
    [] OTHER -> [lo |-> 300, hi |-> 600]

\* The windows with the dealers lists among the slow-changing data.
AmendedWindow(family) ==
  CASE family \in {"predictions", "oracle-requests"} -> [lo |-> 60, hi |-> 60]
    [] family \in {"markets", "withdrawals"} -> [lo |-> 120, hi |-> 120]
    [] family \in {"dealers", "market-history", "market-stats"} -> [lo |-> 300, hi |-> 300]
    [] OTHER -> [lo |-> 600, hi |-> 600]

WindowFamilies ==
  {"predictions", "oracle-requests", "markets", "dealers", "withdrawals",
   "market-history", "market-stats", "dealer-permissions"}

\* A read of successfully fetched data that no event has invalidated is
\* served from the cache before the window is over and refetches after it.
ReadsFollow(Window(_)) ==
  \A o \in observers :
    LET q == queries[queryKey(o)]
    IN /\ o.hook.family \in WindowFamilies
       /\ enabledOf(o, queries) /\ isSuccess(q) /\ ~q.isInvalidated /\ q.fetchStatus = "idle"
       /\ Read(o)
       => /\ AgeSeconds(q) < Window(o.hook.family).lo =>
               lastRead'.served = "cache" /\ queries' = queries
          /\ AgeSeconds(q) > Window(o.hook.family).hi =>
               lastRead'.served = "fetch" /\ queries'[queryKey(o)].fetchStatus = "fetching"

C31_ConnectedStays ==
  [][/\ connectionState = "connected"
     /\ enabled' = enabled /\ cfg' = cfg
     /\ ~DisconnectCall /\ ~ReconnectCall
     /\ ~(\E s \in sources, fatal \in BOOLEAN : StreamError(s, fatal))
     => connectionState' = "connected" /\ sources' = sources]_vars

\* C32: in every reachable state, if the connection state is disconnected
\* then no event stream is open and clientId and subscriptionId are null,
\* also when disconnected was entered because the reconnect attempts were
\* exhausted.
C32_DisconnectedIsClosed ==
  connectionState = "disconnected" =>
    sources = {} /\ clientId = NoId /\ subscriptionId = NoId

\* ------------------------------------------------- favorites store, further
\* C33: in every reachable state of the favorites store, no two records of
\* one wallet's list have the same id.
C33_UniqueIds ==
  \A k \in DOMAIN walletFavorites :
    \A i, j \in 1..Len(walletFavorites[k].favorites) :
      i # j => walletFavorites[k].favorites[i].id # walletFavorites[k].favorites[j].id

\* C34: with a wallet connected, the step in which an add mutation of the
\* favorites hook succeeds with a server-confirmed record leaves that record
\* in the wallet's store list, whatever the store received between the
\* optimistic insert and the confirmation.
C34_ConfirmedRecordStored ==
  [][\A item \in Items :
       \A resp \in AddResponses(item) :
         /\ AddSettle(item, resp)
         /\ propWallet # None
         /\ ~client_addFavorite(resp).threw
         /\ client_addFavorite(resp).value.data # None
         => client_addFavorite(resp).value.data[1] \in Range(HookListNext)]_vars

Awaiting(key) == {c \in Callers : callers[c].pc = "awaitMarkets" /\ callers[c].key = key}

\* C35: of the calls of getActiveMarkets with the same arguments, at most one
\* has an endpoint request in flight at any time: a call that starts while
\* another call's request for the same key has not settled issues no request
\* of its own.
C35_OneRequestPerKey ==
  \A l \in Limits : Cardinality(Awaiting(getCacheKey(<<"active-markets", l>>))) <= 1

\* C36: for every wallet and item, and every list the store holds for the
\* wallet, addFavoriteOptimistic followed by rollbackAdd of the same item
\* gives back the list the wallet had before the two calls.
C36_RollbackRestores ==
  \A a \in Addresses, i \in Items :
    getFavorites(rollbackAdd(addFavoriteOptimistic(walletFavorites, a, i, now), a, i), a)
      = getFavorites(walletFavorites, a)

\* ------------------------------------------------------- useSSE, further
\* C37: in every reachable state at most one event stream opened by the
\* client is open, and every step that opens a stream leaves that stream as
\* the only open one: the previous stream is closed in the same step.
C37_OneStreamOpen ==
  /\ [](Cardinality(sources) <= 1)
  /\ [][sources' # sources /\ sources' # {} =>
          Cardinality(sources') = 1 /\ sources' \cap sources = {}]_vars

\* A second stream is open after the first one was closed by connect().
C37_Witness ==
  /\ Cardinality(sources) = 1
  /\ eventSourceRef = 2
  /\ \A s \in sources : s.id = 2

\* Every wallet other than the addressed one has the same state after the
\* step as before it.
OthersUnchanged(a) ==
  \A k \in (DOMAIN walletFavorites \cup DOMAIN walletFavorites') \ {toLowerCase(a)} :
    /\ k \in DOMAIN walletFavorites
    /\ k \in DOMAIN walletFavorites'
    /\ walletFavorites'[k] = walletFavorites[k]

\* C38: every store operation that takes a wallet address (setFavorites,
\* addFavoriteOptimistic, updateFavoriteFromServer, removeFavoriteOptimistic,
\* rollbackAdd, rollbackRemove, clearFavorites) leaves the list and
\* lastFetched of every other wallet as they were.
C38_OtherWalletsUntouched ==
  [][lastOp'.name \in {"setFavorites", "addFavoriteOptimistic", "updateFavoriteFromServer",
                      "removeFavoriteOptimistic", "rollbackAdd", "rollbackRemove",
                      "clearFavorites"}
       => OthersUnchanged(lastOp'.wallet)]_vars

\* An add was confirmed for one wallet while the other wallet holds a
\* placeholder of the same item, which is still there.
C38_Witness ==
  /\ lastOp.name = "updateFavoriteFromServer"
  /\ lastOp.wallet = <<"0", "x", "a", "b">>
  /\ \E n \in DOMAIN lastOp.before : IsPlaceholder(lastOp.before[n], lastOp.item)
  /\ Favorite(ServerIdOf[lastOp.item], lastOp.item)
       \in Range(getFavorites(walletFavorites, lastOp.wallet))
  /\ \E f \in Range(getFavorites(walletFavorites, <<"0", "x", "c", "d">>)) :
       IsPlaceholder(f, lastOp.item)

\* lastFetched of a wallet, None for a wallet that was never fetched (no entry,
\* or null).
lastFetchedOf(wf, walletAddress) ==
  LET normalized == toLowerCase(walletAddress)
  IN IF normalized \in DOMAIN wf THEN wf[normalized].lastFetched ELSE None

OptimisticOps ==
  {"addFavoriteOptimistic", "updateFavoriteFromServer", "removeFavoriteOptimistic",
   "rollbackAdd", "rollbackRemove"}

\* C39: addFavoriteOptimistic, updateFavoriteFromServer,
\* removeFavoriteOptimistic, rollbackAdd and rollbackRemove leave every
\* wallet's lastFetched as it was, and needsRefresh that was true before
\* such a step is true after it; a step that gives a wallet a new lastFetched
\* time is a setFavorites, and the time is the current time.
C39_LastFetchedFrame ==
  [][/\ lastOp'.name \in OptimisticOps =>
          \A a \in Addresses :
            /\ lastFetchedOf(walletFavorites', a) = lastFetchedOf(walletFavorites, a)
            /\ \A maxAge \in MaxAges :
                 needsRefresh(walletFavorites, a, maxAge, now)
                   => needsRefresh(walletFavorites', a, maxAge, now')
     /\ \A a \in Addresses :
          (/\ lastFetchedOf(walletFavorites', a) # lastFetchedOf(walletFavorites, a)
           /\ lastFetchedOf(walletFavorites', a) # None)
          => /\ lastOp'.name = "setFavorites"
             /\ lastOp'.wallet = toLowerCase(a)
             /\ lastFetchedOf(walletFavorites', a) = Some(now)]_vars

\* An optimistic add on a wallet fetched two ticks ago, which still needs a
\* refresh for a maximal age of one tick.
C39_Witness ==
  /\ lastOp.name = "addFavoriteOptimistic"
  /\ lastFetchedOf(walletFavorites, lastOp.wallet) = Some(now - 2)
  /\ needsRefresh(walletFavorites, lastOp.wallet, 1, now)
  /\ Len(getFavorites(walletFavorites, lastOp.wallet)) = Len(lastOp.before) + 1

\* The step is an error of the stream that schedules a reconnect.
ErrorSchedules ==
  /\ \E s \in sources, fatal \in BOOLEAN : StreamError(s, fatal)
  /\ \E t \in timers' : t \notin timers /\ t.id = reconnectTimeoutRef'

====
